---- MODULE Spec2Model ----
(***************************************************************************)
(* The release-signing command eng/_util/cmd/sign: run() drives every      *)
(* discovered archive through entry signing, optional notarization, the    *)
(* detached archive signature, publishing and checksum generation.         *)
(*                                                                         *)
(* Strings are sequences of one-character strings, so that ToLower,        *)
(* HasSuffix, filepath.Match, filepath.Base, filepath.IsLocal and          *)
(* filepath.Join are computed the way the code computes them.  A file      *)
(* system path is the sequence of its segments below the root directory    *)
(* (the working directory is the root, so filepath.Abs adds nothing).      *)
(***************************************************************************)
EXTENDS Integers, Sequences, FiniteSets, TLC

(* Largest number of paths the -files glob expands to. *)
MaxFiles == 2

----------------------------------------------------------------------------
(* String primitives (package strings).                                     *)

UpperChars == <<"A","B","C","D","E","F","G","H","I","J","K","L","M","N","O","P","Q","R","S","T","U","V","W","X","Y","Z">>
LowerChars == <<"a","b","c","d","e","f","g","h","i","j","k","l","m","n","o","p","q","r","s","t","u","v","w","x","y","z">>

ToLowerChar(c) ==
  IF \E i \in 1..Len(UpperChars) : UpperChars[i] = c
  THEN LowerChars[CHOOSE i \in 1..Len(UpperChars) : UpperChars[i] = c]
  ELSE c

ToLowerIdentity(s) == s

ToLower(s) == [i \in 1..Len(s) |-> ToLowerChar(s[i])]

HasSuffix(s, suffix) ==
  /\ Len(s) >= Len(suffix)
  /\ SubSeq(s, Len(s) - Len(suffix) + 1, Len(s)) = suffix

HasPrefix(s, prefix) ==
  /\ Len(s) >= Len(prefix)
  /\ SubSeq(s, 1, Len(prefix)) = prefix

(* strings.Split(s, "/"): the segments of s between separators. *)
RECURSIVE SplitAcc(_, _, _)
SplitAcc(s, cur, acc) ==
  IF s = <<>> THEN Append(acc, cur)
  ELSE IF Head(s) = "/" THEN SplitAcc(Tail(s), <<>>, Append(acc, cur))
  ELSE SplitAcc(Tail(s), Append(cur, Head(s)), acc)

Split(s) == SplitAcc(s, <<>>, <<>>)

----------------------------------------------------------------------------
(* Path primitives (package path/filepath, Unix rules).                     *)

Dot == <<".">>
DotDot == <<".", ".">>

(* filepath.Match for patterns made of literal characters and '*', which   *)
(* matches any run of non-separator characters.                            *)
RECURSIVE Match(_, _)
Match(pattern, name) ==
  IF pattern = <<>> THEN name = <<>>
  ELSE IF Head(pattern) = "*"
       THEN \/ Match(Tail(pattern), name)
            \/ (name # <<>> /\ Head(name) # "/" /\ Match(pattern, Tail(name)))
       ELSE /\ name # <<>>
            /\ Head(name) = Head(pattern)
            /\ Match(Tail(pattern), Tail(name))

matchOrPanic(pattern, name) == Match(pattern, name)

(* filepath.Clean on the segments of a path.  rooted: ".." at the root is  *)
(* dropped; otherwise leading ".." segments are kept.                      *)
RECURSIVE CleanAcc(_, _, _)
CleanAcc(segs, acc, rooted) ==
  IF segs = <<>> THEN acc
  ELSE LET h == Head(segs) IN
       IF h = <<>> \/ h = Dot THEN CleanAcc(Tail(segs), acc, rooted)
       ELSE IF h = DotDot
            THEN IF acc # <<>> /\ acc[Len(acc)] # DotDot
                 THEN CleanAcc(Tail(segs), SubSeq(acc, 1, Len(acc) - 1), rooted)
                 ELSE IF rooted THEN CleanAcc(Tail(segs), acc, rooted)
                 ELSE CleanAcc(Tail(segs), Append(acc, h), rooted)
            ELSE CleanAcc(Tail(segs), Append(acc, h), rooted)

IsAbs(name) == name # <<>> /\ Head(name) = "/"

IsLocalAlways(name) == TRUE

(* filepath.IsLocal: not empty, not absolute, and lexically inside the     *)
(* directory it is evaluated in.                                           *)
IsLocal(name) ==
  /\ name # <<>>
  /\ ~IsAbs(name)
  /\ LET c == CleanAcc(Split(name), <<>>, FALSE)
     IN  c = <<>> \/ c[1] # DotDot

(* filepath.Join(dir, name...) for a rooted dir: the elements are joined   *)
(* with separators and the result is cleaned.                              *)
Join(dir, name) == CleanAcc(dir \o Split(name), <<>>, TRUE)

(* filepath.Base of a string: its last non-empty segment. *)
Base(name) ==
  LET c == SelectSeq(Split(name), LAMBDA x : x # <<>>)
  IN  IF c = <<>> THEN (IF name = <<>> THEN Dot ELSE <<"/">>) ELSE c[Len(c)]

IsUnder(path, dir) ==
  /\ Len(path) > Len(dir)
  /\ SubSeq(path, 1, Len(dir)) = dir

----------------------------------------------------------------------------
(* Literal strings of the program.                                          *)

Sha256Suffix == <<".","s","h","a","2","5","6">>
ExeSuffix == <<".","e","x","e">>
SigSuffix == <<".","s","i","g">>
ToSignBundleSuffix == <<".","T","o","S","i","g","n","B","u","n","d","l","e",".","z","i","p">>
ToNotarizeSuffix == <<".","T","o","N","o","t","a","r","i","z","e",".","z","i","p">>
WithSignedContentSuffix == <<".","W","i","t","h","S","i","g","n","e","d","C","o","n","t","e","n","t">>
SignWorkPrefix == <<"s","i","g","n","-","w","o","r","k","-">>
ExtractDir == <<"e","x","t","r","a","c","t">>
ZipPattern == <<"g","o","*",".","z","i","p">>
TarGzPattern == <<"g","o","*",".","t","a","r",".","g","z">>
DarwinPattern == <<"g","o","*","d","a","r","w","i","n","*",".","t","a","r",".","g","z">>
BinPattern == <<"g","o","/","b","i","n","/","*">>
ToolPattern == <<"g","o","/","p","k","g","/","t","o","o","l","/","*","/","*">>
SignPrefix == <<"S","i","g","n">>
PropsSuffix == <<".","p","r","o","p","s">>

(* The step names run() passes to sign(). *)
StepName(n) ==
  CASE n = 1 -> <<"1","-","I","n","d","i","v","i","d","u","a","l">>
    [] n = 2 -> <<"2","-","N","o","t","a","r","i","z","e">>
    [] OTHER -> <<"3","-","S","i","g","s">>

(* The -temp-dir and -o flags, and the directory the -files glob lists.    *)
TempDir == << <<"t">> >>
DestinationDir == << <<"o">> >>
SourceDir == << <<"s">> >>

(* The suffixes os.MkdirTemp may append to the work directory's name. *)
RandomSuffixes == { <<"1">>, <<"2">> }

----------------------------------------------------------------------------
(* Containers.  A zip entry carries the FileHeader fields the program      *)
(* reads, its external attributes (attrs) and its bytes; a tar entry the   *)
(* tar.Header fields, its type flag and its bytes.  Bytes are sequences of *)
(* one-character strings.                                                  *)

ZipEntry(name, method, comment, modified, extra, attrs, data) ==
  [name |-> name, method |-> method, comment |-> comment, modified |-> modified,
   extra |-> extra, attrs |-> attrs, data |-> data]

TarEntry(name, typeflag, linkname, mode, owner, times, data) ==
  [name |-> name, typeflag |-> typeflag, linkname |-> linkname,
   size |-> Len(data), mode |-> mode,
   uid |-> owner, gid |-> owner, uname |-> <<"u">>, gname |-> <<"g">>,
   modTime |-> times, accessTime |-> times + 1, changeTime |-> times + 2,
   data |-> data]

ZipFile(entries, closed) == [kind |-> "zip", entries |-> entries, closed |-> closed]
TarGzFile(entries, closed) == [kind |-> "targz", entries |-> entries, closed |-> closed]
RawFile(data) == [kind |-> "raw", data |-> data]

(* Entries used by the archives of the staging directory. *)
N_bin_a_exe == <<"g","o","/","b","i","n","/","a",".","e","x","e">>
N_doc_dir == <<"g","o","/","d","o","c","/">>
N_doc_h == <<"g","o","/","d","o","c","/","h">>
N_a_exe == <<"g","o","/","a",".","e","x","e">>
N_d_exe == <<"g","o","/","d",".","e","x","e">>
N_escape_exe == <<".",".","/",".",".","/","x",".","e","x","e">>
N_h == <<"g","o","/","h">>
N_bin_go == <<"g","o","/","b","i","n","/","g","o">>
N_lib_dir == <<"g","o","/","l","i","b","/">>
N_tool_c == <<"g","o","/","p","k","g","/","t","o","o","l","/","a","/","c">>
N_link == <<"g","o","/","b","i","n","/","l">>
N_bin_c == <<"g","o","/","b","i","n","/","c">>
N_bin_k == <<"g","o","/","b","i","n","/","k">>
N_abs == <<"/","b","i","n","/","e">>
N_escape == <<".",".","/",".",".","/","e">>

GoodZip ==
  ZipFile(<< ZipEntry(N_bin_a_exe, "deflate", <<"c">>, 11, <<"x">>, "exec", <<"m","z">>),
             ZipEntry(N_doc_dir, "store", <<>>, 12, <<>>, "dir", <<>>),
             ZipEntry(N_doc_h, "deflate", <<>>, 13, <<"y">>, "file", <<"h">>) >>, TRUE)

EscapingZip ==
  ZipFile(<< ZipEntry(N_a_exe, "deflate", <<>>, 21, <<>>, "exec", <<"m">>),
             ZipEntry(N_escape_exe, "store", <<>>, 22, <<>>, "exec", <<"e">>),
             ZipEntry(N_h, "store", <<>>, 23, <<>>, "file", <<"h">>) >>, TRUE)

(* A zip whose second entry is a directory by its external attributes,   *)
(* with a name that has no trailing slash and ends in .exe.               *)
DirExeZip ==
  ZipFile(<< ZipEntry(N_bin_a_exe, "deflate", <<>>, 71, <<>>, "exec", <<"m">>),
             ZipEntry(N_d_exe, "store", <<>>, 72, <<>>, "dir", <<>>),
             ZipEntry(N_a_exe, "deflate", <<>>, 73, <<>>, "exec", <<"n">>) >>, TRUE)

(* A zip that lists go/a.exe twice, with different bytes, as a zip that   *)
(* was appended to does.                                                    *)
DuplicatePathZip ==
  ZipFile(<< ZipEntry(N_a_exe, "deflate", <<>>, 91, <<>>, "exec", <<"p">>),
             ZipEntry(N_h, "deflate", <<>>, 92, <<>>, "file", <<"h">>),
             ZipEntry(N_a_exe, "deflate", <<>>, 93, <<>>, "exec", <<"q">>) >>, TRUE)

GoodDarwin ==
  TarGzFile(<< TarEntry(N_bin_go, "reg", <<>>, 7, 1, 31, <<"g","o">>),
               TarEntry(N_lib_dir, "dir", <<>>, 7, 1, 32, <<>>),
               TarEntry(N_tool_c, "reg", <<>>, 7, 0, 33, <<"c">>),
               TarEntry(N_link, "symlink", N_bin_go, 7, 0, 34, <<>>),
               TarEntry(N_h, "reg", <<>>, 6, 0, 35, <<"h">>) >>, TRUE)

DuplicateDarwin ==
  TarGzFile(<< TarEntry(N_bin_c, "reg", <<>>, 7, 1, 41, <<"b">>),
               TarEntry(N_tool_c, "reg", <<>>, 7, 1, 42, <<"c">>) >>, TRUE)

EscapingDarwin ==
  TarGzFile(<< TarEntry(N_bin_go, "reg", <<>>, 7, 1, 51, <<"g">>),
               TarEntry(N_abs, "reg", <<>>, 7, 1, 52, <<"e">>),
               TarEntry(N_h, "reg", <<>>, 6, 1, 53, <<"h">>) >>, TRUE)

(* A macOS archive whose second entry is a hard link that carries a size  *)
(* in its header, as archives written by some tools do; the reader offers  *)
(* no body for it.                                                          *)
SizedLinkDarwin ==
  TarGzFile(<< TarEntry(N_bin_go, "reg", <<>>, 7, 1, 81, <<"g">>),
               [TarEntry(N_bin_k, "link", N_bin_go, 7, 1, 82, <<>>) EXCEPT !.size = 1],
               TarEntry(N_h, "reg", <<>>, 6, 1, 83, <<"h">>) >>, TRUE)

EscapingLinux ==
  TarGzFile(<< TarEntry(N_bin_go, "reg", <<>>, 7, 1, 61, <<"g">>),
               TarEntry(N_escape, "reg", <<>>, 7, 1, 62, <<"e">>) >>, TRUE)

(* The files the staging directory may hold, in the order filepath.Glob    *)
(* lists a directory (sorted by name), each with its content.              *)
Catalog ==
  << [base |-> <<"g","o","A",".","z","i","p">>, content |-> GoodZip],
     [base |-> <<"g","o","a",".","z","i","p">>, content |-> EscapingZip],
     [base |-> <<"g","o","a",".","z","i","p",".","s","h","a","2","5","6">>,
      content |-> RawFile(<<"d">>)],
     [base |-> <<"g","o","b",".","z","i","p">>, content |-> DuplicatePathZip],
     [base |-> <<"g","o","d","a","r","w","i","n",".","t","a","r",".","g","z">>,
      content |-> GoodDarwin],
     [base |-> <<"g","o","d","a","r","w","i","n",".","z","i","p">>,
      content |-> DirExeZip],
     [base |-> <<"g","o","d","a","r","w","i","n","b",".","t","a","r",".","g","z">>,
      content |-> DuplicateDarwin],
     [base |-> <<"g","o","d","a","r","w","i","n","c",".","t","a","r",".","g","z">>,
      content |-> EscapingDarwin],
     [base |-> <<"g","o","d","a","r","w","i","n","d",".","t","a","r",".","g","z">>,
      content |-> SizedLinkDarwin],
     [base |-> <<"g","o","l","i","n","u","x",".","t","a","r",".","g","z">>,
      content |-> EscapingLinux],
     [base |-> <<"x",".","t","x","t">>, content |-> RawFile(<<"t">>)] >>

CatalogPath(k) == Append(SourceDir, Catalog[k].base)

SourceContent(p) == Catalog[CHOOSE k \in 1..Len(Catalog) : CatalogPath(k) = p].content

(* The expansions of the glob: at most MaxFiles files, in sorted order.    *)
RECURSIVE IndexLists(_, _)
IndexLists(from, n) ==
  IF n = 0 THEN { <<>> }
  ELSE { <<>> } \cup
       UNION { { <<k>> \o rest : rest \in IndexLists(k + 1, n - 1) } :
               k \in from..Len(Catalog) }

GlobResults == { [i \in 1..Len(l) |-> CatalogPath(l[i])] : l \in IndexLists(1, MaxFiles) }

----------------------------------------------------------------------------
(* State.                                                                   *)

VARIABLES
  files,             \* the paths filepath.Glob returned
  dryRun,            \* flag -n
  notarize,          \* flag -notarize
  timeoutSet,        \* flag -timeout is not zero
  ctxDone,           \* the deadline of ctx has passed
  pc,                \* the statement of run() being executed
  idx,               \* index of the current file or archive in the current loop
  ent,               \* index of the current entry in an open iteration, 0 when none is open
  archives,          \* the archives found so far
  archiveFilenames,  \* findArchives: lowercase base name -> path
  results,           \* flatMapSlice: the requests collected in the current phase
  cur,               \* locals of the open iteration: requests, written names, output path
  fs,                \* the file system: path -> content
  proc,              \* the external signer process: "none", "running", "exited", "killed"
  manifests,         \* history: the props contents built by sign(), in order
  events,            \* history: steps begun and ended, entries visited, processes started
  written,           \* history: the files created or overwritten, and by which archive
  err,               \* the error run() returned, "" while there is none
  MaxAttempts,       \* Invoke-WithRetry: parameter $MaxAttempts
  SecondsBetweenAttempts, \* Invoke-WithRetry: parameter $SecondsBetweenAttempts
  Attempts,          \* Invoke-WithRetry: $Attempts
  rpc,               \* Invoke-WithRetry: the statement being executed, "idle" outside a call
  runs,              \* history: how often the script block has been invoked
  sleeps,            \* history: how often Start-Sleep has waited
  lastFailure,       \* history: the error the latest failed invocation threw, 0 if none
  outcome            \* how the call ended: returned a value, threw an error, or "none"

config == <<files, dryRun, notarize, timeoutSet>>
control == <<pc, idx, ent, err>>
history == <<manifests, events, written>>
retry == <<MaxAttempts, SecondsBetweenAttempts, Attempts, rpc, runs, sleeps,
           lastFailure, outcome>>
vars == <<files, dryRun, notarize, timeoutSet, ctxDone, pc, idx, ent, archives,
          archiveFilenames, results, cur, fs, proc, manifests, events, written, err,
          MaxAttempts, SecondsBetweenAttempts, Attempts, rpc, runs, sleeps,
          lastFailure, outcome>>

NoOutcome == [kind |-> "none", value |-> 0]

NoPath == <<>>
Nil == [nil |-> TRUE]
NoLocals == [results |-> <<>>, writtenNames |-> {}, target |-> NoPath]

Put(f, p, c) == [q \in (DOMAIN f) \cup {p} |-> IF q = p THEN c ELSE f[q]]

Event(ev, op, a, n) == [ev |-> ev, op |-> op, a |-> a, n |-> n]

Wrote(p, a) == [path |-> p, by |-> a]

ZipType == "zipArchive"
TarGzType == "tarGzArchive"

----------------------------------------------------------------------------
(* The archive model.                                                       *)

(* A latestPath that always returns the source path. *)
latestPathIgnoringRepack(a) == a.path

latestPath(a) ==
  IF a.notarizedPath # NoPath THEN a.notarizedPath
  ELSE IF a.repackedPath # NoPath THEN a.repackedPath
  ELSE a.path

sigPath(a) == Join(a.workDir, a.name \o SigSuffix)

macHardenPackPath(a) == Join(a.workDir, a.name \o ToSignBundleSuffix)

macNotarizePackPath(a) == Join(a.workDir, a.name \o ToNotarizeSuffix)

FileToSign(originalPath, fullPath, authenticode, zip) ==
  [originalPath |-> originalPath, fullPath |-> fullPath,
   authenticode |-> authenticode, zip |-> zip, macAppName |-> ""]

(* An entrySignInfo that selects nothing. *)
entrySignInfoNever(a, name) == Nil

entrySignInfo(a, name) ==
  IF a.archiveType = ZipType
  THEN IF HasSuffix(name, ExeSuffix)
       THEN FileToSign(a.path, Join(Append(a.workDir, ExtractDir), name), "Microsoft400", FALSE)
       ELSE Nil
  ELSE IF a.archiveMacOS
       THEN IF matchOrPanic(BinPattern, name) \/ matchOrPanic(ToolPattern, name)
            THEN FileToSign(a.path, NoPath, "", TRUE)
            ELSE Nil
       ELSE Nil

(* zip.File.FileInfo().IsDir() *)
ZipIsDir(e) == e.attrs = "dir" \/ HasSuffix(e.name, <<"/">>)

(* newArchive without its work directory: the classification by name. *)
ArchiveTypeOf(name) ==
  IF matchOrPanic(ZipPattern, name) THEN ZipType
  ELSE IF matchOrPanic(TarGzPattern, name) THEN TarGzType
  ELSE "unknown"

(* A newArchive that sets the macOS flag for every archive. *)
newArchiveAlwaysMacOS(p, workDir) ==
  [path |-> p, name |-> Base(p[Len(p)]),
   archiveType |-> ArchiveTypeOf(Base(p[Len(p)])),
   archiveMacOS |-> TRUE,
   workDir |-> workDir, repackedPath |-> NoPath, notarizedPath |-> NoPath]

newArchive(p, workDir) ==
  [path |-> p, name |-> Base(p[Len(p)]),
   archiveType |-> ArchiveTypeOf(Base(p[Len(p)])),
   archiveMacOS |-> matchOrPanic(DarwinPattern, Base(p[Len(p)])),
   workDir |-> workDir, repackedPath |-> NoPath, notarizedPath |-> NoPath]

WorkDirName(name, r) == Append(TempDir, SignWorkPrefix \o name \o r)

Entries(a) == fs[a.path].entries

----------------------------------------------------------------------------
(* Initial states: a staging directory holding the globbed files, the      *)
(* flags, and run() about to call findArchives.                            *)

Init ==
  /\ files \in GlobResults
  /\ dryRun \in BOOLEAN
  /\ notarize \in BOOLEAN
  /\ timeoutSet \in BOOLEAN
  /\ ctxDone = FALSE
  /\ pc = "findArchives"
  /\ idx = 1
  /\ ent = 0
  /\ archives = <<>>
  /\ archiveFilenames = <<>>
  /\ results = <<>>
  /\ cur = NoLocals
  /\ fs = [p \in { files[i] : i \in 1..Len(files) } |-> SourceContent(p)]
  /\ proc = "none"
  /\ manifests = <<>>
  /\ events = <<>>
  /\ written = {}
  /\ err = ""
  /\ MaxAttempts = 0
  /\ SecondsBetweenAttempts = 0
  /\ Attempts = 0
  /\ rpc = "idle"
  /\ runs = 0
  /\ sleeps = 0
  /\ lastFailure = 0
  /\ outcome = NoOutcome

Running == pc \notin {"done", "failed"}

(* run() returns err: nothing more is executed. *)
Fail(e) == pc' = "failed" /\ err' = e

NextArchiveEarly(nextPc) == ent' = 0 /\ pc' = nextPc /\ idx' = 1

(* The loop over archives moves on, or the loop ends and run() goes on.    *)
NextArchive(nextPc) ==
  /\ ent' = 0
  /\ IF idx < Len(archives)
     THEN pc' = pc /\ idx' = idx + 1
     ELSE pc' = nextPc /\ idx' = 1

(* context.WithDeadline: the deadline passes. *)
DeadlineFires ==
  /\ timeoutSet
  /\ ~ctxDone
  /\ Running
  /\ ctxDone' = TRUE
  /\ UNCHANGED <<config, control, archives, archiveFilenames, results, cur, fs, proc, history>>
  /\ UNCHANGED retry

----------------------------------------------------------------------------
(* findArchives                                                             *)

(* A findArchives that skips no file. *)
IsChecksumFileNever(f) == FALSE

(* findArchives: strings.HasSuffix(f, ".sha256") *)
IsChecksumFile(f) == HasSuffix(f[Len(f)], Sha256Suffix)

FindArchive ==
  /\ pc = "findArchives"
  /\ idx <= Len(files)
  /\ LET f == files[idx]
         filenameLower == ToLower(Base(f[Len(f)]))
     IN
     IF ctxDone
     THEN /\ Fail("context deadline exceeded")
          /\ UNCHANGED <<idx, archives, archiveFilenames>>
     ELSE IF IsChecksumFile(f)
     THEN /\ idx' = idx + 1
          /\ UNCHANGED <<pc, err, archives, archiveFilenames>>
     ELSE IF \E i \in 1..Len(archiveFilenames) : archiveFilenames[i].lower = filenameLower
     THEN /\ Fail("duplicate archive")
          /\ UNCHANGED <<idx, archives, archiveFilenames>>
     ELSE /\ archiveFilenames' = Append(archiveFilenames, [lower |-> filenameLower, path |-> f])
          /\ IF ArchiveTypeOf(Base(f[Len(f)])) = "unknown"
             THEN /\ Fail("unknown archive type")
                  /\ UNCHANGED <<idx, archives>>
             ELSE \E r \in RandomSuffixes :
                    /\ \A i \in 1..Len(archives) :
                         archives[i].workDir # WorkDirName(Base(f[Len(f)]), r)
                    /\ archives' = Append(archives, newArchive(f, WorkDirName(Base(f[Len(f)]), r)))
                    /\ idx' = idx + 1
                    /\ UNCHANGED <<pc, err>>
  /\ UNCHANGED <<config, ctxDone, ent, results, cur, fs, proc, history>>
  /\ UNCHANGED retry

(* A findArchives that returns an empty list as a result. *)
FindArchivesEndAcceptsNone ==
  /\ pc = "findArchives"
  /\ idx > Len(files)
  /\ pc' = "prepareEntriesToSign" /\ idx' = 1 /\ UNCHANGED err
  /\ UNCHANGED <<config, ctxDone, ent, archives, archiveFilenames, results, cur, fs, proc, history>>
  /\ UNCHANGED retry

FindArchivesEnd ==
  /\ pc = "findArchives"
  /\ idx > Len(files)
  /\ IF Len(archives) = 0
     THEN Fail("no archives found to sign") /\ UNCHANGED idx
     ELSE pc' = "prepareEntriesToSign" /\ idx' = 1 /\ UNCHANGED err
  /\ UNCHANGED <<config, ctxDone, ent, archives, archiveFilenames, results, cur, fs, proc, history>>
  /\ UNCHANGED retry

----------------------------------------------------------------------------
(* prepareEntriesToSign, one step per container entry.                      *)

Close(f, p) == IF p = NoPath THEN f ELSE [f EXCEPT ![p].closed = TRUE]

WriteEntry(f, p, e) == [f EXCEPT ![p].entries = Append(@, e)]

(* A visitor that never finds a base name in writtenNames. *)
DuplicateNameNever(base, writtenNames) == FALSE

(* extractMacOSEntriesToZip: _, ok := writtenNames[base] *)
DuplicateName(base, writtenNames) == base \in writtenNames

(* A visitor that does not look at the context. *)
VisitorCtxErrNever == FALSE

(* The first statement of each entry visitor: ctx.Err() != nil *)
VisitorCtxErr == ctxDone

(* A bundle whose entries keep their full names. *)
BundleEntryNameFull(name) == name

(* extractMacOSEntriesToZip: base := filepath.Base(header.Name) *)
BundleEntryName(name) == Base(name)

(* A bundle request with the zip flag set. *)
BundleRequestZip(a) == FileToSign(a.path, macHardenPackPath(a), "MacDeveloperHarden", TRUE)

(* prepareEntriesToSign: fts, the request for the bundle; zip is left unset. *)
BundleRequest(a) == FileToSign(a.path, macHardenPackPath(a), "MacDeveloperHarden", FALSE)

(* A flatMapSlice that puts each archive's requests in front. *)
flatMapSlicePrepend(collected, r) == r \o collected

(* flatMapSlice: results = append(results, r...) *)
flatMapSlice(collected, r) == collected \o r

(* The error a Close call of an output writer or file can return. *)
CloseFailed == "close failed"

(* The outcomes of closing the writers and the file of an open output;     *)
(* a visitor that writes to no output has nothing to close.                *)
CloseErrors(target) == IF target = NoPath THEN {""} ELSE {"", CloseFailed}

(* A helper that reports the close error in preference to the visitor's. *)
cmpOrLast(visitorErr, closeErr) == IF closeErr # "" THEN closeErr ELSE visitorErr

(* cmp.Or(f(w), w.Close()): both are evaluated, the first error wins. *)
cmpOr(visitorErr, closeErr) == IF visitorErr # "" THEN visitorErr ELSE closeErr

PrepareOpen ==
  /\ pc = "prepareEntriesToSign"
  /\ ent = 0
  /\ LET a == archives[idx] IN
     IF a.archiveType = ZipType
     THEN /\ ent' = 1
          /\ cur' = NoLocals
          /\ events' = Append(events, Event("begin", pc, idx, 0))
          /\ UNCHANGED <<pc, idx, fs, written>>
     ELSE IF a.archiveMacOS
     THEN /\ ent' = 1
          /\ cur' = [NoLocals EXCEPT !.target = macHardenPackPath(a)]
          /\ fs' = Put(fs, macHardenPackPath(a), ZipFile(<<>>, FALSE))
          /\ written' = written \cup {Wrote(macHardenPackPath(a), idx)}
          /\ events' = Append(events, Event("begin", pc, idx, 0))
          /\ UNCHANGED <<pc, idx>>
     ELSE /\ events' = events \o <<Event("begin", pc, idx, 0), Event("end", pc, idx, 0)>>
          /\ NextArchive("sign1")
          /\ UNCHANGED <<cur, fs, written>>
  /\ UNCHANGED <<config, ctxDone, err, archives, archiveFilenames, results, proc, manifests>>
  /\ UNCHANGED retry

PrepareVisit ==
  /\ pc = "prepareEntriesToSign"
  /\ ent >= 1
  /\ ent <= Len(Entries(archives[idx]))
  /\ LET a == archives[idx]
         e == Entries(a)[ent]
         isZip == a.archiveType = ZipType
         local == IsLocal(e.name)
         info == entrySignInfo(a, e.name)
         selected == /\ local
                     /\ ~VisitorCtxErr
                     /\ IF isZip THEN ~ZipIsDir(e) ELSE e.typeflag = "reg"
                     /\ info # Nil
         base == BundleEntryName(e.name)
         failure == IF ~local THEN "non-local path"
                    ELSE IF VisitorCtxErr THEN "context deadline exceeded"
                    ELSE IF ~isZip /\ selected /\ ~info.zip THEN "unexpected file to sign directly"
                    ELSE IF ~isZip /\ selected /\ DuplicateName(base, cur.writtenNames)
                         THEN "duplicate file name in archive"
                    ELSE ""
     IN
     /\ events' = IF local THEN Append(events, Event("visit", pc, idx, ent)) ELSE events
     /\ IF failure # ""
        THEN /\ \E closeErr \in CloseErrors(cur.target) : Fail(cmpOr(failure, closeErr))
             /\ results' = <<>>
             /\ fs' = Close(fs, cur.target)
             /\ UNCHANGED <<idx, ent, cur, written>>
        ELSE /\ ent' = ent + 1
             /\ UNCHANGED <<pc, idx, err, results>>
             /\ IF ~selected
                THEN UNCHANGED <<cur, fs, written>>
                ELSE IF isZip
                THEN /\ fs' = Put(fs, info.fullPath, RawFile(e.data))
                     /\ written' = written \cup {Wrote(info.fullPath, idx)}
                     /\ cur' = [cur EXCEPT !.results = Append(@, info)]
                ELSE /\ fs' = WriteEntry(fs, cur.target,
                                ZipEntry(base, "store", <<>>, 0, <<>>, "none", e.data))
                     /\ cur' = [cur EXCEPT !.writtenNames = @ \cup {base}]
                     /\ UNCHANGED written
  /\ UNCHANGED <<config, ctxDone, archives, archiveFilenames, proc, manifests>>
  /\ UNCHANGED retry

PrepareClose ==
  /\ pc = "prepareEntriesToSign"
  /\ ent > Len(Entries(archives[idx]))
  /\ LET a == archives[idx] IN
     /\ results' = IF a.archiveType = ZipType
                   THEN flatMapSlice(results, cur.results)
                   ELSE flatMapSlice(results, <<BundleRequest(a)>>)
     /\ fs' = Close(fs, cur.target)
  /\ cur' = NoLocals
  /\ events' = Append(events, Event("end", pc, idx, 0))
  /\ NextArchive("sign1")
  /\ UNCHANGED <<config, ctxDone, err, archives, archiveFilenames, proc, manifests, written>>
  /\ UNCHANGED retry

----------------------------------------------------------------------------
(* sign: the manifest, and the external signer behind it.                   *)

SignStep == CASE pc = "sign1" -> 1 [] pc = "sign2" -> 2 [] pc = "sign3" -> 3 [] OTHER -> 0

AfterSign(n) ==
  CASE n = 1 -> "repackSignedEntries"
    [] n = 2 -> "unpackNotarize"
    [] OTHER -> "copyToDestination"

(* fileToSign.WriteMSBuildItem *)
MSBuildItem(f) ==
  [Include |-> f.fullPath, Authenticode |-> f.authenticode, Zip |-> f.zip,
   MacAppName |-> f.macAppName]

Manifest(fileList) == [i \in 1..Len(fileList) |-> MSBuildItem(fileList[i])]

propsFilePath(n) == Join(TempDir, SignPrefix \o StepName(n) \o PropsSuffix)

(* The signer's contract: the file is replaced in place by its signed      *)
(* equivalent; the detached-signature profile leaves the signature of the  *)
(* content it was given.                                                   *)
SignBytes(data) == Append(data, "S")

SignedContent(c, authenticode) ==
  IF authenticode = "LinuxSignManagedLanguageCompiler"
  THEN [kind |-> "signature", of |-> c]
  ELSE IF c.kind = "raw" THEN RawFile(SignBytes(c.data))
  ELSE IF c.kind = "zip"
       THEN ZipFile([i \in 1..Len(c.entries) |->
                       [c.entries[i] EXCEPT !.data = SignBytes(@)]], TRUE)
  ELSE c

RECURSIVE SignFiles(_, _, _)
SignFiles(f, items, k) ==
  IF k = 0 THEN f
  ELSE LET g == SignFiles(f, items, k - 1)
           it == items[k]
       IN  IF it.Include \in DOMAIN g
           THEN [g EXCEPT ![it.Include] = SignedContent(@, it.Authenticode)]
           ELSE g

(* A sign() that ignores the -n flag. *)
SignAlways ==
  /\ SignStep # 0
  /\ proc # "running"
  /\ manifests' = Append(manifests, [step |-> SignStep, items |-> Manifest(results)])
  /\ fs' = Put(fs, propsFilePath(SignStep), [kind |-> "props", items |-> Manifest(results)])
  /\ written' = written \cup {Wrote(propsFilePath(SignStep), 0)}
  /\ IF ctxDone
     THEN /\ Fail("context deadline exceeded")
          /\ events' = Append(events, Event("begin", "sign", 0, SignStep))
          /\ UNCHANGED proc
     ELSE /\ proc' = "running"
          /\ events' = events \o <<Event("begin", "sign", 0, SignStep),
                                   Event("exec", "sign", 0, SignStep)>>
          /\ UNCHANGED <<pc, err>>
  /\ UNCHANGED <<config, ctxDone, idx, ent, archives, archiveFilenames, results, cur>>
  /\ UNCHANGED retry

Sign ==
  /\ SignStep # 0
  /\ proc # "running"
  /\ manifests' = Append(manifests, [step |-> SignStep, items |-> Manifest(results)])
  /\ IF dryRun
     THEN /\ events' = events \o <<Event("begin", "sign", 0, SignStep),
                                   Event("end", "sign", 0, SignStep)>>
          /\ pc' = AfterSign(SignStep)
          /\ idx' = 1
          /\ results' = <<>>
          /\ UNCHANGED <<err, fs, written, proc>>
     ELSE /\ fs' = Put(fs, propsFilePath(SignStep), [kind |-> "props", items |-> Manifest(results)])
          /\ written' = written \cup {Wrote(propsFilePath(SignStep), 0)}
          /\ UNCHANGED <<idx, results>>
          /\ IF ctxDone
             THEN /\ Fail("context deadline exceeded")
                  /\ events' = Append(events, Event("begin", "sign", 0, SignStep))
                  /\ UNCHANGED proc
             ELSE /\ proc' = "running"
                  /\ events' = events \o <<Event("begin", "sign", 0, SignStep),
                                           Event("exec", "sign", 0, SignStep)>>
                  /\ UNCHANGED <<pc, err>>
  /\ UNCHANGED <<config, ctxDone, ent, archives, archiveFilenames, cur>>
  /\ UNCHANGED retry

(* The signer exits with status 0: every file of the manifest is signed.   *)
SignerReturns ==
  /\ SignStep # 0
  /\ proc = "running"
  /\ ~ctxDone
  /\ fs' = SignFiles(fs, Manifest(results), Len(results))
  /\ proc' = "exited"
  /\ events' = Append(events, Event("end", "sign", 0, SignStep))
  /\ pc' = AfterSign(SignStep)
  /\ idx' = 1
  /\ results' = <<>>
  /\ UNCHANGED <<config, ctxDone, ent, err, archives, archiveFilenames, cur, manifests, written>>
  /\ UNCHANGED retry

(* A run() that calls the signer again after a failed call. *)
SignerFailsRetry ==
  /\ SignStep # 0
  /\ proc = "running"
  /\ proc' = "exited"
  /\ UNCHANGED <<config, ctxDone, control, archives, archiveFilenames, results, cur, fs, history>>
  /\ UNCHANGED retry

(* A run() that logs the signer's error and goes on. *)
SignerFailsIgnored ==
  /\ SignStep # 0
  /\ proc = "running"
  /\ proc' = "exited"
  /\ err' = "exit status 1"
  /\ pc' = AfterSign(SignStep)
  /\ idx' = 1
  /\ results' = <<>>
  /\ UNCHANGED <<config, ctxDone, ent, archives, archiveFilenames, cur, fs, history>>
  /\ UNCHANGED retry

(* The signer exits with a non-zero status, having signed some of the files. *)
SignerFails ==
  /\ SignStep # 0
  /\ proc = "running"
  /\ \E k \in 0..Len(results) : fs' = SignFiles(fs, Manifest(results), k)
  /\ proc' = "exited"
  /\ Fail("exit status 1")
  /\ UNCHANGED <<config, ctxDone, idx, ent, archives, archiveFilenames, results, cur, history>>
  /\ UNCHANGED retry

(* A sign() that returns at the deadline and leaves the process running.  *)
SignerAbandoned ==
  /\ SignStep # 0
  /\ proc = "running"
  /\ ctxDone
  /\ Fail("context deadline exceeded")
  /\ UNCHANGED <<config, ctxDone, idx, ent, archives, archiveFilenames, results, cur, fs,
                 proc, history>>
  /\ UNCHANGED retry

(* exec.CommandContext: the deadline has passed, the process is killed.    *)
SignerKilled ==
  /\ SignStep # 0
  /\ proc = "running"
  /\ ctxDone
  /\ \E k \in 0..Len(results) : fs' = SignFiles(fs, Manifest(results), k)
  /\ proc' = "killed"
  /\ Fail("signal: killed")
  /\ UNCHANGED <<config, ctxDone, idx, ent, archives, archiveFilenames, results, cur, history>>
  /\ UNCHANGED retry

----------------------------------------------------------------------------
(* repackSignedEntries, one step per container entry.                       *)

targetPath(a) == Join(a.workDir, a.name \o WithSignedContentSuffix)

AfterRepack == IF notarize THEN "prepareNotarize" ELSE "prepareArchiveSignatures"

(* zip.Writer.CreateHeader with the FileHeader writeZipRepackEntry builds: *)
(* the fields it copies, and the zero value for the external attributes.   *)
ZipRepackHeader(original, data) ==
  ZipEntry(original.name, original.method, original.comment, original.modified,
           original.extra, "none", data)

(* The entry tar.Writer.WriteHeader records for the header                  *)
(* writeTarRepackEntry builds: the fields it copies; the type flag is left *)
(* zero, which the writer promotes to a directory when the name ends in a  *)
(* slash and to a regular file otherwise.                                  *)
TarRepackHeader(hdr, size, data) ==
  [name |-> hdr.name,
   typeflag |-> IF HasSuffix(hdr.name, <<"/">>) THEN "dir" ELSE "reg",
   linkname |-> hdr.linkname,
   size |-> size, mode |-> hdr.mode,
   uid |-> hdr.uid, gid |-> hdr.gid, uname |-> hdr.uname, gname |-> hdr.gname,
   modTime |-> hdr.modTime, accessTime |-> hdr.accessTime, changeTime |-> hdr.changeTime,
   data |-> data]

(* zip.Reader.Open(name): the index of the entry of that name, 0 if none.  *)
ZipIndex(entries, name) ==
  IF \E i \in 1..Len(entries) : entries[i].name = name
  THEN CHOOSE i \in 1..Len(entries) : entries[i].name = name
  ELSE 0

(* The entries whose content repack replaces, and the bytes it writes for  *)
(* an entry: the signed file on disk (zip), the entry of the signed bundle *)
(* with its base name (tar), or the original bytes.                        *)
Replaced(a, e) ==
  /\ entrySignInfo(a, e.name) # Nil
  /\ (a.archiveType = ZipType \/ e.typeflag = "reg")

ReplacementMissing(f, a, e) ==
  IF a.archiveType = ZipType
  THEN entrySignInfo(a, e.name).fullPath \notin DOMAIN f
  ELSE ZipIndex(f[macHardenPackPath(a)].entries, Base(e.name)) = 0

RepackSourceOriginal(f, a, e) == e.data

RepackSource(f, a, e) ==
  IF ~Replaced(a, e) THEN e.data
  ELSE IF a.archiveType = ZipType THEN f[entrySignInfo(a, e.name).fullPath].data
  ELSE f[macHardenPackPath(a)].entries[
         ZipIndex(f[macHardenPackPath(a)].entries, Base(e.name))].data

(* A repack that rewrites every archive. *)
NeedsRepackAlways(a) == TRUE

(* repackSignedEntries: the archive kinds it rewrites. *)
NeedsRepack(a) == a.archiveType = ZipType \/ a.archiveMacOS

(* A header that keeps the size of the original entry. *)
tarHeaderSizeOriginal(e, substituted, source) == e.size

(* writeTarRepackEntry: newHeader.Size, the original's size field, or      *)
(* stat.Size() of the replacement when the entry is substituted.           *)
tarHeaderSize(e, substituted, source) == IF substituted THEN Len(source) ELSE e.size

(* A repack that records the target as the repacked path when it creates  *)
(* the output.                                                              *)
RepackOpenSetsPath ==
  /\ pc = "repackSignedEntries"
  /\ ent = 0
  /\ LET a == archives[idx] IN
     IF NeedsRepack(a)
     THEN /\ ent' = 1
          /\ cur' = [NoLocals EXCEPT !.target = targetPath(a)]
          /\ fs' = Put(fs, targetPath(a),
                       IF a.archiveType = ZipType THEN ZipFile(<<>>, FALSE)
                       ELSE TarGzFile(<<>>, FALSE))
          /\ written' = written \cup {Wrote(targetPath(a), idx)}
          /\ events' = Append(events, Event("begin", pc, idx, 0))
          /\ archives' = [archives EXCEPT ![idx].repackedPath = targetPath(a)]
          /\ UNCHANGED <<pc, idx>>
     ELSE /\ events' = events \o <<Event("begin", pc, idx, 0), Event("end", pc, idx, 0)>>
          /\ NextArchive(AfterRepack)
          /\ UNCHANGED <<cur, fs, written, archives>>
  /\ UNCHANGED <<config, ctxDone, err, archiveFilenames, results, proc, manifests>>
  /\ UNCHANGED retry

RepackOpen ==
  /\ pc = "repackSignedEntries"
  /\ ent = 0
  /\ LET a == archives[idx] IN
     IF NeedsRepack(a)
     THEN /\ ent' = 1
          /\ cur' = [NoLocals EXCEPT !.target = targetPath(a)]
          /\ fs' = Put(fs, targetPath(a),
                       IF a.archiveType = ZipType THEN ZipFile(<<>>, FALSE)
                       ELSE TarGzFile(<<>>, FALSE))
          /\ written' = written \cup {Wrote(targetPath(a), idx)}
          /\ events' = Append(events, Event("begin", pc, idx, 0))
          /\ UNCHANGED <<pc, idx>>
     ELSE /\ events' = events \o <<Event("begin", pc, idx, 0), Event("end", pc, idx, 0)>>
          /\ NextArchive(AfterRepack)
          /\ UNCHANGED <<cur, fs, written>>
  /\ UNCHANGED <<config, ctxDone, err, archives, archiveFilenames, results, proc, manifests>>
  /\ UNCHANGED retry

RepackVisit ==
  /\ pc = "repackSignedEntries"
  /\ ent >= 1
  /\ ent <= Len(Entries(archives[idx]))
  /\ LET a == archives[idx]
         e == Entries(a)[ent]
         isZip == a.archiveType = ZipType
         local == IsLocal(e.name)
         isFile == ~isZip /\ e.typeflag = "reg"
         replaced == Replaced(a, e)
         missing == replaced /\ ReplacementMissing(fs, a, e)
         source == IF missing THEN e.data ELSE RepackSource(fs, a, e)
         hdrSize == IF isZip THEN 0 ELSE tarHeaderSize(e, replaced /\ ~missing, source)
         body == IF isZip \/ isFile THEN source ELSE <<>>
         failure == IF ~local THEN "non-local path"
                    ELSE IF VisitorCtxErr THEN "context deadline exceeded"
                    ELSE IF missing THEN "file does not exist"
                    ELSE IF ~isZip /\ Len(body) > hdrSize THEN "failed to write"
                    ELSE IF ~isZip /\ Len(body) < hdrSize THEN "failed to flush"
                    ELSE ""
         headerWritten == local /\ ~VisitorCtxErr /\ (isZip \/ ~missing)
         outEntry == IF isZip THEN ZipRepackHeader(e, IF missing THEN <<>> ELSE body)
                     ELSE TarRepackHeader(e, hdrSize,
                            IF Len(body) > hdrSize THEN SubSeq(body, 1, hdrSize) ELSE body)
     IN
     /\ events' = IF local THEN Append(events, Event("visit", pc, idx, ent)) ELSE events
     /\ fs' = Close(IF headerWritten THEN WriteEntry(fs, cur.target, outEntry) ELSE fs,
                    IF failure # "" THEN cur.target ELSE NoPath)
     /\ IF failure # ""
        THEN /\ \E closeErr \in CloseErrors(cur.target) : Fail(cmpOr(failure, closeErr))
             /\ UNCHANGED <<idx, ent>>
        ELSE ent' = ent + 1 /\ UNCHANGED <<pc, idx, err>>
  /\ UNCHANGED <<config, ctxDone, archives, archiveFilenames, results, cur, proc, manifests, written>>
  /\ UNCHANGED retry

RepackClose ==
  /\ pc = "repackSignedEntries"
  /\ ent > Len(Entries(archives[idx]))
  /\ fs' = Close(fs, cur.target)
  /\ archives' = [archives EXCEPT ![idx].repackedPath = targetPath(archives[idx])]
  /\ cur' = NoLocals
  /\ events' = Append(events, Event("end", pc, idx, 0))
  /\ NextArchive(AfterRepack)
  /\ UNCHANGED <<config, ctxDone, err, archiveFilenames, results, proc, manifests, written>>
  /\ UNCHANGED retry

----------------------------------------------------------------------------
(* Notarization, archive signatures, publishing, checksums.                 *)

PrepareNotarize ==
  /\ pc = "prepareNotarize"
  /\ IF ctxDone
     THEN /\ Fail("context deadline exceeded")
          /\ events' = Append(events, Event("begin", pc, idx, 0))
          /\ UNCHANGED <<idx, ent>>
     ELSE /\ events' = events \o <<Event("begin", pc, idx, 0), Event("end", pc, idx, 0)>>
          /\ NextArchive("sign2")
          /\ UNCHANGED err
  /\ results' = IF ctxDone THEN <<>> ELSE results
  /\ UNCHANGED <<config, ctxDone, archives, archiveFilenames, cur, fs, proc, manifests, written>>
  /\ UNCHANGED retry

(* An unpackNotarize that records a notarized variant for macOS archives. *)
UnpackNotarizeSetsPath ==
  /\ pc = "unpackNotarize"
  /\ ~ctxDone
  /\ archives' = [archives EXCEPT ![idx].notarizedPath =
                    IF archives[idx].archiveMacOS
                    THEN macNotarizePackPath(archives[idx]) ELSE @]
  /\ events' = events \o <<Event("begin", pc, idx, 0), Event("end", pc, idx, 0)>>
  /\ NextArchive("prepareArchiveSignatures")
  /\ UNCHANGED <<config, ctxDone, err, archiveFilenames, results, cur, fs, proc,
                 manifests, written>>
  /\ UNCHANGED retry

UnpackNotarize ==
  /\ pc = "unpackNotarize"
  /\ IF ctxDone
     THEN /\ Fail("context deadline exceeded")
          /\ events' = Append(events, Event("begin", pc, idx, 0))
          /\ UNCHANGED <<idx, ent>>
     ELSE /\ events' = events \o <<Event("begin", pc, idx, 0), Event("end", pc, idx, 0)>>
          /\ NextArchive("prepareArchiveSignatures")
          /\ UNCHANGED err
  /\ UNCHANGED <<config, ctxDone, archives, archiveFilenames, results, cur, fs, proc,
                 manifests, written>>
  /\ UNCHANGED retry

(* A signature request that targets the archive itself. *)
SignatureRequestInPlace(a) ==
  FileToSign(a.path, latestPath(a), "LinuxSignManagedLanguageCompiler", FALSE)

(* prepareArchiveSignatures: the request it returns. *)
SignatureRequest(a) ==
  FileToSign(a.path, sigPath(a), "LinuxSignManagedLanguageCompiler", FALSE)

(* A signature prepare step that copies the source archive. *)
SignatureInputSource(a) == a.path

(* prepareArchiveSignatures: the file copyFile reads for the signature. *)
SignatureInput(a) == latestPath(a)

PrepareArchiveSignatures ==
  /\ pc = "prepareArchiveSignatures"
  /\ LET a == archives[idx] IN
     IF ctxDone
     THEN /\ Fail("context deadline exceeded")
          /\ events' = Append(events, Event("begin", pc, idx, 0))
          /\ results' = <<>>
          /\ UNCHANGED <<idx, ent, fs, written>>
     ELSE IF SignatureInput(a) \notin DOMAIN fs
     THEN /\ Fail("file does not exist")
          /\ events' = Append(events, Event("begin", pc, idx, 0))
          /\ results' = <<>>
          /\ UNCHANGED <<idx, ent, fs, written>>
     ELSE /\ fs' = Put(fs, sigPath(a), fs[SignatureInput(a)])
          /\ written' = written \cup {Wrote(sigPath(a), idx)}
          /\ results' = flatMapSlice(results, <<SignatureRequest(a)>>)
          /\ events' = events \o <<Event("begin", pc, idx, 0), Event("end", pc, idx, 0)>>
          /\ NextArchive("sign3")
          /\ UNCHANGED err
  /\ UNCHANGED <<config, ctxDone, archives, archiveFilenames, cur, proc, manifests>>
  /\ UNCHANGED retry

DestinationPath(a) == Join(DestinationDir, a.name)

(* A signature published under the archive's own name. *)
DestinationSigPathNoSuffix(a) == Join(DestinationDir, a.name)

DestinationSigPath(a) == Join(DestinationDir, a.name \o SigSuffix)

CopyToDestination ==
  /\ pc = "copyToDestination"
  /\ LET a == archives[idx] IN
     IF ctxDone
     THEN /\ Fail("context deadline exceeded")
          /\ events' = Append(events, Event("begin", pc, idx, 0))
          /\ UNCHANGED <<idx, ent, fs, written>>
     ELSE IF latestPath(a) \notin DOMAIN fs
     THEN /\ Fail("file does not exist")
          /\ events' = Append(events, Event("begin", pc, idx, 0))
          /\ UNCHANGED <<idx, ent, fs, written>>
     ELSE IF sigPath(a) \notin DOMAIN fs
     THEN /\ Fail("file does not exist")
          /\ fs' = Put(fs, DestinationPath(a), fs[latestPath(a)])
          /\ written' = written \cup {Wrote(DestinationPath(a), idx)}
          /\ events' = Append(events, Event("begin", pc, idx, 0))
          /\ UNCHANGED <<idx, ent>>
     ELSE /\ fs' = Put(Put(fs, DestinationPath(a), fs[latestPath(a)]),
                       DestinationSigPath(a), fs[sigPath(a)])
          /\ written' = written \cup {Wrote(DestinationPath(a), idx),
                                      Wrote(DestinationSigPath(a), idx)}
          /\ events' = events \o <<Event("begin", pc, idx, 0), Event("end", pc, idx, 0)>>
          /\ NextArchive("checksum")
          /\ UNCHANGED err
  /\ UNCHANGED <<config, ctxDone, archives, archiveFilenames, results, cur, proc, manifests>>
  /\ UNCHANGED retry

(* checksum.WriteSHA256ChecksumFile(path) *)
ChecksumPath(path) == [path EXCEPT ![Len(path)] = @ \o Sha256Suffix]

(* The path as the string the program holds: its segments joined by the    *)
(* separator.                                                               *)
RECURSIVE PathString(_)
PathString(path) ==
  IF path = <<>> THEN <<>>
  ELSE <<"/">> \o Head(path) \o PathString(Tail(path))

(* The number of bytes io.Copy feeds to the hash: the data of a plain     *)
(* file, or the bodies and one header each of an archive's entries.        *)
RECURSIVE EntryBytes(_)
EntryBytes(entries) ==
  IF entries = <<>> THEN 0
  ELSE 1 + Len(Head(entries).name) + Len(Head(entries).data) + EntryBytes(Tail(entries))

ContentBytes(content) ==
  IF content.kind \in {"zip", "targz"} THEN EntryBytes(content.entries)
  ELSE IF content.kind = "raw" THEN Len(content.data)
  ELSE 0

(* checksum.Sum(nil): the 32 bytes of the digest.  The digest function is  *)
(* stood for by a function of the bytes read that yields 32 byte values.   *)
Sha256Sum(content) ==
  [i \in 1..32 |-> (ContentBytes(content) * (i + 6) + 13 * i) % 256]

(* hex.EncodeToString: two lower-case hexadecimal digits per byte, high    *)
(* nibble first.                                                            *)
HexTable == <<"0","1","2","3","4","5","6","7","8","9","a","b","c","d","e","f">>

RECURSIVE EncodeToString(_)
EncodeToString(bytes) ==
  IF bytes = <<>> THEN <<>>
  ELSE <<HexTable[(Head(bytes) \div 16) + 1], HexTable[(Head(bytes) % 16) + 1]>>
       \o EncodeToString(Tail(bytes))

(* A sidecar line that names the file by its whole path. *)
ChecksumContentFullPath(path, content) ==
  [kind |-> "checksum",
   text |-> EncodeToString(Sha256Sum(content)) \o <<" ", " ">>
            \o PathString(path) \o <<"\n">>]

(* fmt.Sprintf("%v  %v\n", hex digest, filepath.Base(path)) *)
ChecksumContent(path, content) ==
  [kind |-> "checksum",
   text |-> EncodeToString(Sha256Sum(content)) \o <<" ", " ">>
            \o Base(PathString(path)) \o <<"\n">>]

WriteChecksum ==
  /\ pc = "checksum"
  /\ LET path == DestinationPath(archives[idx]) IN
     IF path \notin DOMAIN fs
     THEN /\ Fail("file does not exist")
          /\ events' = Append(events, Event("begin", pc, idx, 0))
          /\ UNCHANGED <<idx, ent, fs, written>>
     ELSE /\ fs' = Put(fs, ChecksumPath(path), ChecksumContent(path, fs[path]))
          /\ written' = written \cup {Wrote(ChecksumPath(path), 0)}
          /\ events' = events \o <<Event("begin", pc, idx, 0), Event("end", pc, idx, 0)>>
          /\ NextArchive("done")
          /\ UNCHANGED err
  /\ UNCHANGED <<config, ctxDone, archives, archiveFilenames, results, cur, proc, manifests>>
  /\ UNCHANGED retry

(* Any file system call of the current step fails: the step returns the    *)
(* error, an open output is closed on the way out.                         *)
IOError ==
  /\ Running
  /\ proc # "running"
  /\ Fail("input/output error")
  /\ fs' = IF ent >= 1 THEN Close(fs, cur.target) ELSE fs
  /\ UNCHANGED <<config, ctxDone, idx, ent, archives, archiveFilenames, results, cur,
                 proc, history>>
  /\ UNCHANGED retry

----------------------------------------------------------------------------

Next ==
  \/ DeadlineFires
  \/ FindArchive
  \/ FindArchivesEnd
  \/ PrepareOpen
  \/ PrepareVisit
  \/ PrepareClose
  \/ Sign
  \/ SignerReturns
  \/ SignerFails
  \/ SignerKilled
  \/ RepackOpen
  \/ RepackVisit
  \/ RepackClose
  \/ PrepareNotarize
  \/ UnpackNotarize
  \/ PrepareArchiveSignatures
  \/ CopyToDestination
  \/ WriteChecksum
  \/ IOError

Spec == Init /\ [][Next]_vars

----------------------------------------------------------------------------
(* Properties.                                                              *)

(* The place of a step in run(): 1 prepareEntriesToSign, 2 sign 1-Individual, *)
(* 3 repackSignedEntries, 4 prepareNotarize, 5 sign 2-Notarize,            *)
(* 6 unpackNotarize, 7 prepareArchiveSignatures, 8 sign 3-Sigs,            *)
(* 9 copyToDestination, 10 checksum.                                       *)
OpRank(e) ==
  CASE e.op = "prepareEntriesToSign" -> 1
    [] e.op = "sign" -> (IF e.n = 1 THEN 2 ELSE IF e.n = 2 THEN 5 ELSE 8)
    [] e.op = "repackSignedEntries" -> 3
    [] e.op = "prepareNotarize" -> 4
    [] e.op = "unpackNotarize" -> 6
    [] e.op = "prepareArchiveSignatures" -> 7
    [] e.op = "copyToDestination" -> 9
    [] OTHER -> 10

SignRanks == {2, 5, 8}
NotarizeRanks == {4, 5, 6}

(* Before event j, the step of rank r has ended: the signer call has      *)
(* returned, or every discovered archive has completed the step.          *)
PhaseComplete(r, j) ==
  IF r \in SignRanks
  THEN \E i \in 1..(j - 1) : events[i].ev = "end" /\ OpRank(events[i]) = r
  ELSE \A a \in 1..Len(archives) :
         \E i \in 1..(j - 1) :
           events[i].ev = "end" /\ OpRank(events[i]) = r /\ events[i].a = a

HasEnded(op, a) == \E i \in 1..Len(events) : events[i] = Event("end", op, a, 0)

ExecCount(n) ==
  Cardinality({ i \in 1..Len(events) : events[i] = Event("exec", "sign", 0, n) })

SignReturned(n) == \E i \in 1..Len(events) : events[i] = Event("end", "sign", 0, n)

ManifestsOf(n) == { i \in 1..Len(manifests) : manifests[i].step = n }

(* C1: the steps of run() happen in the order of the phases, no step of a *)
(* later phase begins before every discovered archive has completed each  *)
(* earlier step and each earlier signer call has returned (notarization   *)
(* only when enabled), and no step of an archive happens twice.           *)
C1_PhaseBarrier ==
  /\ \A i, j \in 1..Len(events) : i < j => OpRank(events[i]) <= OpRank(events[j])
  /\ \A i, j \in 1..Len(events) : i < j => events[i] # events[j]
  /\ \A j \in 1..Len(events) :
       /\ (OpRank(events[j]) \in NotarizeRanks => notarize)
       /\ events[j].ev = "begin" =>
            \A r \in 1..(OpRank(events[j]) - 1) :
              (r \in NotarizeRanks /\ ~notarize) \/ PhaseComplete(r, j)

C1_Witness ==
  /\ pc = "done"
  /\ notarize
  /\ Len(archives) = 2
  /\ \A a \in 1..2 : HasEnded("copyToDestination", a)

(* The archives that have entries to sign in phase 1. *)
NeedsEntrySigning(a) ==
  IF a.archiveType = ZipType
  THEN \E k \in 1..Len(Entries(a)) :
         HasSuffix(Entries(a)[k].name, ExeSuffix) /\ ~ZipIsDir(Entries(a)[k])
  ELSE a.archiveMacOS

HoldsAllArchives(n, items) ==
  CASE n = 1 ->
         /\ \A a \in 1..Len(archives) :
              NeedsEntrySigning(archives[a]) =>
                \E k \in 1..Len(items) : IsUnder(items[k].Include, archives[a].workDir)
         /\ \A k \in 1..Len(items) :
              \E a \in 1..Len(archives) : IsUnder(items[k].Include, archives[a].workDir)
    [] n = 2 -> items = <<>>
    [] OTHER ->
         /\ Len(items) = Len(archives)
         /\ \A a \in 1..Len(archives) : items[a].Include = sigPath(archives[a])

(* C2: when the run is not a dry run, the signer process is started at    *)
(* most once per phase, never for notarization unless it is enabled,      *)
(* exactly once for every phase whose signer call has returned, and the   *)
(* one manifest of the phase holds the requests of all archives, empty    *)
(* or not.                                                                *)
C2_OneSignerCallPerPhase ==
  ~dryRun =>
    \A n \in 1..3 :
      /\ ExecCount(n) <= 1
      /\ Cardinality(ManifestsOf(n)) <= 1
      /\ (n = 2 /\ ~notarize => ExecCount(n) = 0)
      /\ (SignReturned(n) => ExecCount(n) = 1)
      /\ (ExecCount(n) = 1 =>
            /\ Cardinality(ManifestsOf(n)) = 1
            /\ \A i \in ManifestsOf(n) : HoldsAllArchives(n, manifests[i].items))

C2_Witness ==
  /\ ~dryRun
  /\ pc = "done"
  /\ ExecCount(1) = 1
  /\ ExecCount(3) = 1
  /\ manifests[1].items = <<>>
  /\ Len(manifests[Len(manifests)].items) = Len(archives)

(* C3: run() has failed exactly when it holds an error, and once it has   *)
(* failed nothing more happens: no step, no signer call, no file written. *)
C3_FailureAborts ==
  /\ [](err # "" <=> pc = "failed")
  /\ [][pc = "failed" =>
          UNCHANGED <<pc, err, idx, ent, archives, results, fs, proc, manifests,
                      events, written>>]_vars

C3_Witness ==
  /\ pc = "failed"
  /\ err = "exit status 1"
  /\ ExecCount(1) = 1
  /\ ~SignReturned(1)
  /\ \A i \in 1..Len(events) : OpRank(events[i]) <= 2

(* C4: in a dry run no signer process is ever started, every signer call  *)
(* that returned had its manifest built, and a run that ends has built    *)
(* the manifest of every phase and has extracted, repacked, copied for    *)
(* signature and published every archive.                                 *)
C4_DryRunSkipsSigner ==
  dryRun =>
    /\ proc = "none"
    /\ \A n \in 1..3 : ExecCount(n) = 0
    /\ \A n \in 1..3 : SignReturned(n) => Cardinality(ManifestsOf(n)) = 1
    /\ pc = "done" =>
         /\ [i \in 1..Len(manifests) |-> manifests[i].step] =
              (IF notarize THEN <<1, 2, 3>> ELSE <<1, 3>>)
         /\ \A a \in 1..Len(archives) :
              /\ HasEnded("prepareEntriesToSign", a)
              /\ HasEnded("repackSignedEntries", a)
              /\ HasEnded("prepareArchiveSignatures", a)
              /\ HasEnded("copyToDestination", a)
              /\ NeedsEntrySigning(archives[a]) =>
                   archives[a].repackedPath \in DOMAIN fs
              /\ sigPath(archives[a]) \in DOMAIN fs
              /\ DestinationPath(archives[a]) \in DOMAIN fs

C4_Witness ==
  /\ dryRun
  /\ pc = "done"
  /\ Len(manifests[1].items) >= 1
  /\ \E a \in 1..Len(archives) : archives[a].repackedPath \in DOMAIN fs

InScratch(p) == \E a \in 1..Len(archives) : IsUnder(p, archives[a].workDir)

IsPublishedFile(p) ==
  \E a \in 1..Len(archives) :
    \/ p = Join(DestinationDir, archives[a].name)
    \/ p = Join(DestinationDir, archives[a].name \o SigSuffix)
    \/ p = Join(DestinationDir, archives[a].name \o Sha256Suffix)

IsUntouchedSource(p) ==
  /\ \E i \in 1..Len(files) : files[i] = p
  /\ fs[p] = SourceContent(p)
  /\ \A w \in written : w.path # p

(* C5 as stated: in a dry run every file the run creates or modifies is   *)
(* local bookkeeping of an archive, that is, lies in a scratch directory. *)
C5_DryRunOnlyLocalFiles ==
  dryRun =>
    /\ \A w \in written : InScratch(w.path)
    /\ \A p \in DOMAIN fs : IsUntouchedSource(p) \/ InScratch(p)

(* C5 amended: in a dry run every file the run creates or modifies lies   *)
(* in the scratch directory of an archive or is an archive's published    *)
(* copy, signature file or checksum sidecar in the destination directory; *)
(* every other file is a source file with its original content.           *)
C5_DryRunFiles ==
  dryRun =>
    /\ \A w \in written : InScratch(w.path) \/ IsPublishedFile(w.path)
    /\ \A p \in DOMAIN fs : IsUntouchedSource(p) \/ InScratch(p) \/ IsPublishedFile(p)

C5_Witness ==
  /\ dryRun
  /\ pc = "done"
  /\ \E w \in written : IsPublishedFile(w.path) /\ HasSuffix(w.path[Len(w.path)], Sha256Suffix)
  /\ \E w \in written : InScratch(w.path) /\ HasSuffix(w.path[Len(w.path)], ExeSuffix)

(* The entries an archive selects as signable, and where the signer       *)
(* leaves the signed bytes of one.                                        *)
SelectedEntry(a, e) ==
  IF a.archiveType = ZipType
  THEN HasSuffix(e.name, ExeSuffix) /\ ~ZipIsDir(e)
  ELSE /\ a.archiveMacOS
       /\ e.typeflag = "reg"
       /\ (Match(BinPattern, e.name) \/ Match(ToolPattern, e.name))

SignedBytesPresent(a, e) ==
  IF a.archiveType = ZipType
  THEN (a.workDir \o <<ExtractDir>> \o Split(e.name)) \in DOMAIN fs
  ELSE /\ macHardenPackPath(a) \in DOMAIN fs
       /\ \E k \in 1..Len(fs[macHardenPackPath(a)].entries) :
            fs[macHardenPackPath(a)].entries[k].name = Base(e.name)

SignedBytes(a, e) ==
  IF a.archiveType = ZipType
  THEN fs[a.workDir \o <<ExtractDir>> \o Split(e.name)].data
  ELSE LET pack == fs[macHardenPackPath(a)].entries
       IN  pack[CHOOSE k \in 1..Len(pack) : pack[k].name = Base(e.name)].data

IsRepacked(a) == a.repackedPath # NoPath

(* C6: in a repacked archive every entry selected as signable holds the   *)
(* bytes found at its request's location (the extracted file, or the      *)
(* bundle entry of its base name), and every other entry holds the bytes  *)
(* of the original entry.                                                 *)
C6_RepackContent ==
  \A x \in 1..Len(archives) :
    LET a == archives[x] IN
    IsRepacked(a) =>
      LET out == fs[a.repackedPath].entries
          orig == Entries(a)
      IN  /\ Len(out) = Len(orig)
          /\ \A i \in 1..Len(orig) :
               /\ out[i].name = orig[i].name
               /\ IF SelectedEntry(a, orig[i])
                  THEN /\ SignedBytesPresent(a, orig[i])
                       /\ out[i].data = SignedBytes(a, orig[i])
                  ELSE out[i].data = orig[i].data

C6_Witness ==
  /\ ~dryRun
  /\ pc = "done"
  /\ \E x \in 1..Len(archives) :
       /\ archives[x].archiveMacOS
       /\ IsRepacked(archives[x])
       /\ \E i \in 1..Len(Entries(archives[x])) :
            /\ SelectedEntry(archives[x], Entries(archives[x])[i])
            /\ fs[archives[x].repackedPath].entries[i].data # Entries(archives[x])[i].data

(* No entry's content is changed by signing. *)
NothingSigned(a) ==
  dryRun \/ \A i \in 1..Len(Entries(a)) : ~SelectedEntry(a, Entries(a)[i])

(* C7 as stated: when signing changes no content, the repacked archive    *)
(* has the entries of the original, in order, each with the same name,    *)
(* metadata and content: for a zip entry the name, method, comment,       *)
(* modification time and extra field, for a tar entry the whole header.   *)
C7_RepackPreservesEntries ==
  \A x \in 1..Len(archives) :
    LET a == archives[x] IN
    (IsRepacked(a) /\ NothingSigned(a)) =>
      LET out == fs[a.repackedPath].entries
          orig == Entries(a)
      IN  /\ Len(out) = Len(orig)
          /\ \A i \in 1..Len(orig) :
               IF a.archiveType = ZipType
               THEN /\ out[i].name = orig[i].name
                    /\ out[i].method = orig[i].method
                    /\ out[i].comment = orig[i].comment
                    /\ out[i].modified = orig[i].modified
                    /\ out[i].extra = orig[i].extra
                    /\ out[i].data = orig[i].data
               ELSE out[i] = orig[i]

(* A name that is an absolute path or leaves its directory through a      *)
(* parent segment.                                                        *)
Escapes(name) ==
  LET segs == Split(name) IN
  \E k \in 1..Len(segs) :
    Cardinality({ i \in 1..k : segs[i] = DotDot }) >
    Cardinality({ i \in 1..k : segs[i] \notin {<<>>, Dot, DotDot} })

UnsafeName(name) == IsAbs(name) \/ Escapes(name)

Iterating == pc \in {"prepareEntriesToSign", "repackSignedEntries"} /\ ent >= 1

(* C8: the visitor is never called for an entry with an unsafe name nor   *)
(* for an entry after one, the iteration does not get past such an entry  *)
(* but fails there with the path-safety error, and when it does every     *)
(* file written so far lies in the scratch directory of its archive.      *)
C8_PathSafety ==
  /\ \A i \in 1..Len(events) :
       events[i].ev = "visit" =>
         \A j \in 1..events[i].n : ~UnsafeName(Entries(archives[events[i].a])[j].name)
  /\ Iterating =>
       \A j \in 1..Len(Entries(archives[idx])) :
         j < ent => ~UnsafeName(Entries(archives[idx])[j].name)
  /\ err = "non-local path" =>
       /\ UnsafeName(Entries(archives[idx])[ent].name)
       /\ \A w \in written :
            w.by \in 1..Len(archives) /\ IsUnder(w.path, archives[w.by].workDir)

C8_Witness ==
  /\ err = "non-local path"
  /\ archives[idx].archiveType = ZipType
  /\ Escapes(Entries(archives[idx])[ent].name)
  /\ written # {}

HasUnsafeEntry(a) == \E k \in 1..Len(Entries(a)) : UnsafeName(Entries(a)[k].name)

IsPublished(a) == DestinationPath(a) \in DOMAIN fs

(* C9 as stated: a run with a discovered archive of any kind that holds   *)
(* an entry with an unsafe name does not end without error, and that      *)
(* archive is not published.                                              *)
C9_UnsafeNeverPublished ==
  \A x \in 1..Len(archives) :
    HasUnsafeEntry(archives[x]) => (pc # "done" /\ ~IsPublished(archives[x]))

(* C9 amended: the same for zip archives and special-platform gzip-tar    *)
(* archives, the kinds whose entries the run iterates.                    *)
C9_IteratedUnsafeNeverPublished ==
  \A x \in 1..Len(archives) :
    (HasUnsafeEntry(archives[x]) /\
     (archives[x].archiveType = ZipType \/ archives[x].archiveMacOS)) =>
      (pc # "done" /\ ~IsPublished(archives[x]))

C9_Witness ==
  /\ pc = "failed"
  /\ err = "non-local path"
  /\ archives[idx].archiveMacOS
  /\ HasUnsafeEntry(archives[idx])
  /\ ~IsPublished(archives[idx])

(* Equal after lowercasing: the same length, and at each place the same   *)
(* character or the two cases of one letter.                              *)
EqualFold(s, t) ==
  /\ Len(s) = Len(t)
  /\ \A i \in 1..Len(s) :
       \/ s[i] = t[i]
       \/ \E k \in 1..Len(UpperChars) : {s[i], t[i]} = {UpperChars[k], LowerChars[k]}

GlobbedDuplicate ==
  \E i, j \in 1..Len(files) :
    /\ i < j
    /\ ~HasSuffix(files[i][Len(files[i])], Sha256Suffix)
    /\ ~HasSuffix(files[j][Len(files[j])], Sha256Suffix)
    /\ EqualFold(files[i][Len(files[i])], files[j][Len(files[j])])

(* C10: the archives found always have pairwise different lowercase base  *)
(* names, and when two globbed paths other than .sha256 files have equal  *)
(* lowercase base names the run never gets past discovery: no request is  *)
(* built, no manifest, no signer call.                                    *)
C10_NoCaseDuplicates ==
  /\ \A x, y \in 1..Len(archives) :
       x # y => ~EqualFold(archives[x].name, archives[y].name)
  /\ GlobbedDuplicate =>
       /\ pc \in {"findArchives", "failed"}
       /\ results = <<>>
       /\ manifests = <<>>
       /\ events = <<>>
       /\ proc = "none"

C10_Witness ==
  /\ pc = "failed"
  /\ err = "duplicate archive"
  /\ GlobbedDuplicate
  /\ Len(archives) = 1

(* A special-platform archive with two regular-file entries that both go  *)
(* into the bundle and have the same base name.                           *)
BundledEntry(e) ==
  e.typeflag = "reg" /\ (Match(BinPattern, e.name) \/ Match(ToolPattern, e.name))

HasDuplicateBundleName(a) ==
  /\ a.archiveMacOS
  /\ \E i, j \in 1..Len(Entries(a)) :
       /\ i < j
       /\ BundledEntry(Entries(a)[i])
       /\ BundledEntry(Entries(a)[j])
       /\ Base(Entries(a)[i].name) = Base(Entries(a)[j].name)

(* C11: for a special-platform archive in which two bundled regular-file  *)
(* entries have the same base name the prepare step never completes, the  *)
(* run does not get past the prepare phase, and no manifest is built and  *)
(* no signer process started in any phase; the duplicate-name error only  *)
(* arises for such an archive and ends the run.                           *)
C11_DuplicateBundleName ==
  /\ \A x \in 1..Len(archives) :
       HasDuplicateBundleName(archives[x]) =>
         /\ ~HasEnded("prepareEntriesToSign", x)
         /\ pc \in {"findArchives", "prepareEntriesToSign", "failed"}
         /\ manifests = <<>>
         /\ proc = "none"
         /\ \A n \in 1..3 : ExecCount(n) = 0
  /\ err = "duplicate file name in archive" =>
       /\ pc = "failed"
       /\ HasDuplicateBundleName(archives[idx])

C11_Witness ==
  /\ pc = "failed"
  /\ err = "duplicate file name in archive"
  /\ Len(fs[macHardenPackPath(archives[idx])].entries) = 1
  /\ manifests = <<>>

(* C12: when the deadline has passed and an entry of the archive being    *)
(* extracted, bundled or repacked is still to be processed, the next step *)
(* ends the run: no file is created, no file content changes other than   *)
(* an open output being closed, no request is added, and when the entry   *)
(* reaches the visitor the error is the cancellation error.               *)
C12_CancelBetweenEntries ==
  [][(ctxDone /\ Iterating /\ ent <= Len(Entries(archives[idx]))) =>
       /\ pc' = "failed"
       /\ DOMAIN fs' = DOMAIN fs
       /\ \A p \in DOMAIN fs :
            fs'[p] = fs[p] \/ fs'[p] = [fs[p] EXCEPT !.closed = TRUE]
       /\ written' = written
       /\ cur' = cur
       /\ Len(events') > Len(events) => err' = "context deadline exceeded"]_vars

C12_Witness ==
  /\ pc = "failed"
  /\ err = "context deadline exceeded"
  /\ ent >= 2
  /\ events[Len(events)] = Event("visit", "repackSignedEntries", idx, ent)
  /\ Len(fs[targetPath(archives[idx])].entries) = ent - 1

C14_LatestPath ==
  /\ [](\A x \in 1..Len(archives) :
          LET a == archives[x] IN
          /\ a.notarizedPath # NoPath => latestPath(a) = a.notarizedPath
          /\ (a.notarizedPath = NoPath /\ a.repackedPath # NoPath) =>
               latestPath(a) = a.repackedPath
          /\ (a.notarizedPath = NoPath /\ a.repackedPath = NoPath) =>
               latestPath(a) = a.path
          /\ (a.repackedPath # NoPath /\ HasEnded("copyToDestination", x)) =>
               fs[DestinationPath(a)] = fs[a.repackedPath])
  /\ [][\A x \in 1..Len(archives) :
          /\ x <= Len(archives')
          /\ archives[x].repackedPath # NoPath =>
               archives'[x].repackedPath = archives[x].repackedPath
          /\ archives[x].notarizedPath # NoPath =>
               archives'[x].notarizedPath = archives[x].notarizedPath]_vars

C14_Witness ==
  /\ pc = "done"
  /\ Len(archives) = 2
  /\ archives[1].repackedPath = targetPath(archives[1])
  /\ latestPath(archives[1]) = archives[1].repackedPath
  /\ archives[2].repackedPath = NoPath
  /\ latestPath(archives[2]) = archives[2].path

GoPrefix == <<"g", "o">>
ZipExt == <<".", "z", "i", "p">>
TarGzExt == <<".", "t", "a", "r", ".", "g", "z">>

(* C15: every archive found has exactly one container kind, zip or        *)
(* gzip-tar, the one its file name calls for, and its macOS flag is set   *)
(* only if the kind is gzip-tar and the base name matches                 *)
(* go*darwin*.tar.gz.                                                     *)
C15_Classification ==
  \A x \in 1..Len(archives) :
    LET a == archives[x] IN
    /\ a.archiveType \in {ZipType, TarGzType}
    /\ a.name = Base(a.path[Len(a.path)])
    /\ a.archiveType = ZipType <=> (HasPrefix(a.name, GoPrefix) /\ HasSuffix(a.name, ZipExt))
    /\ a.archiveType = TarGzType <=> (HasPrefix(a.name, GoPrefix) /\ HasSuffix(a.name, TarGzExt))
    /\ a.archiveMacOS => (a.archiveType = TarGzType /\ Match(DarwinPattern, a.name))

C15_Witness ==
  /\ Len(archives) = 2
  /\ archives[1].archiveMacOS
  /\ archives[1].archiveType = TarGzType
  /\ archives[2].archiveType = ZipType
  /\ ~archives[2].archiveMacOS
  /\ HasPrefix(archives[2].name, <<"g", "o", "d", "a", "r", "w", "i", "n">>)

(* The requests an archive's prepare step returned, while the phase-1     *)
(* requests are being collected.                                          *)
PrepareReturned(x) ==
  pc \in {"prepareEntriesToSign", "sign1"} /\ HasEnded("prepareEntriesToSign", x)

RequestsOf(x) ==
  LET FromArchive(f) == f.originalPath = archives[x].path
  IN  SelectSeq(results, FromArchive)

ExeRequest(a, e) ==
  [originalPath |-> a.path,
   fullPath |-> a.workDir \o <<ExtractDir>> \o Split(e.name),
   authenticode |-> "Microsoft400", zip |-> FALSE, macAppName |-> ""]

(* C16 as stated: for a zip archive the prepare step returns exactly one  *)
(* request for each entry whose name ends in .exe, in container order,    *)
(* with the profile Microsoft400 and the path of the entry under the      *)
(* extract root, and none for any other entry.                            *)
C16_ZipRequestPerExeName ==
  \A x \in 1..Len(archives) :
    (archives[x].archiveType = ZipType /\ PrepareReturned(x)) =>
      LET a == archives[x]
          NamedExe(e) == HasSuffix(e.name, ExeSuffix)
          exes == SelectSeq(Entries(a), NamedExe)
      IN  RequestsOf(x) = [k \in 1..Len(exes) |-> ExeRequest(a, exes[k])]

(* C16 amended: the same for each entry that is not a directory and whose *)
(* name ends in .exe; a directory entry gets no request whatever its name; *)
(* the file at a request's path holds the bytes of the last entry          *)
(* extracted to it.                                                        *)
C16_ZipRequestPerExeFile ==
  \A x \in 1..Len(archives) :
    (archives[x].archiveType = ZipType /\ PrepareReturned(x)) =>
      LET a == archives[x]
          ExeFile(e) == HasSuffix(e.name, ExeSuffix) /\ ~ZipIsDir(e)
          exes == SelectSeq(Entries(a), ExeFile)
      IN  /\ RequestsOf(x) = [k \in 1..Len(exes) |-> ExeRequest(a, exes[k])]
          /\ \A k \in 1..Len(exes) :
               /\ ExeRequest(a, exes[k]).fullPath \in DOMAIN fs
               /\ \E j \in k..Len(exes) :
                    /\ exes[j].name = exes[k].name
                    /\ \A l \in (j + 1)..Len(exes) : exes[l].name # exes[k].name
                    /\ fs[ExeRequest(a, exes[k]).fullPath].data = exes[j].data

C16_Witness ==
  /\ pc = "sign1"
  /\ \E x \in 1..Len(archives) :
       /\ archives[x].archiveType = ZipType
       /\ PrepareReturned(x)
       /\ Len(RequestsOf(x)) = 2
       /\ \E k \in 1..Len(Entries(archives[x])) :
            /\ ZipIsDir(Entries(archives[x])[k])
            /\ HasSuffix(Entries(archives[x])[k].name, ExeSuffix)

BundlePath(a) == a.workDir \o <<a.name \o ToSignBundleSuffix>>

(* C17: for a special-platform archive whose prepare step has returned,   *)
(* the bundle is one closed zip file in the scratch directory that holds, *)
(* in container order, one entry for each regular-file entry matching     *)
(* go/bin/* or go/pkg/tool/*/*, named by the base name and holding the    *)
(* entry's bytes, and the step returned exactly one request, for the      *)
(* bundle, with the profile MacDeveloperHarden.                           *)
C17_MacBundle ==
  \A x \in 1..Len(archives) :
    (archives[x].archiveMacOS /\ PrepareReturned(x)) =>
      LET a == archives[x]
          bundled == SelectSeq(Entries(a), BundledEntry)
      IN  /\ BundlePath(a) \in DOMAIN fs
          /\ fs[BundlePath(a)].kind = "zip"
          /\ fs[BundlePath(a)].closed
          /\ Len(fs[BundlePath(a)].entries) = Len(bundled)
          /\ \A k \in 1..Len(bundled) :
               /\ fs[BundlePath(a)].entries[k].name = Base(bundled[k].name)
               /\ fs[BundlePath(a)].entries[k].data = bundled[k].data
          /\ Len(RequestsOf(x)) = 1
          /\ RequestsOf(x)[1].fullPath = BundlePath(a)
          /\ RequestsOf(x)[1].authenticode = "MacDeveloperHarden"

C17_Witness ==
  /\ pc = "sign1"
  /\ \E x \in 1..Len(archives) :
       /\ archives[x].archiveMacOS
       /\ PrepareReturned(x)
       /\ Len(fs[BundlePath(archives[x])].entries) = 2
       /\ Len(RequestsOf(x)) = 1
       /\ \E k \in 1..Len(Entries(archives[x])) :
            /\ Entries(archives[x])[k].typeflag = "symlink"
            /\ Match(BinPattern, Entries(archives[x])[k].name)

IsBundleRecord(item) ==
  \E x \in 1..Len(archives) :
    archives[x].archiveMacOS /\ item.Include = BundlePath(archives[x])

(* C18 as stated: the request returned for a special-platform bundle has  *)
(* its zip flag set, and its record in the phase-1 manifest carries the   *)
(* zip flag.                                                              *)
C18_BundleFlaggedZip ==
  /\ \A x \in 1..Len(archives) :
       (archives[x].archiveMacOS /\ PrepareReturned(x)) =>
         \A k \in 1..Len(RequestsOf(x)) : RequestsOf(x)[k].zip
  /\ \A i \in 1..Len(manifests) : \A k \in 1..Len(manifests[i].items) :
       IsBundleRecord(manifests[i].items[k]) => manifests[i].items[k].Zip

(* C18 amended: the request returned for a special-platform bundle has    *)
(* its zip flag unset, and its record in the phase-1 manifest carries the *)
(* bundle path and the hardening profile without the zip flag; only the   *)
(* per-entry information that selects entries for the bundle has the flag. *)
C18_BundleNotFlaggedZip ==
  /\ \A x \in 1..Len(archives) :
       (archives[x].archiveMacOS /\ PrepareReturned(x)) =>
         /\ \A k \in 1..Len(RequestsOf(x)) : ~RequestsOf(x)[k].zip
         /\ \A k \in 1..Len(Entries(archives[x])) :
              BundledEntry(Entries(archives[x])[k]) =>
                entrySignInfo(archives[x], Entries(archives[x])[k].name).zip
  /\ \A i \in 1..Len(manifests) : \A k \in 1..Len(manifests[i].items) :
       IsBundleRecord(manifests[i].items[k]) =>
         /\ manifests[i].step = 1
         /\ ~manifests[i].items[k].Zip
         /\ manifests[i].items[k].Authenticode = "MacDeveloperHarden"

C18_Witness ==
  /\ ~dryRun
  /\ proc = "running"
  /\ Len(manifests) = 1
  /\ \E k \in 1..Len(manifests[1].items) :
       /\ IsBundleRecord(manifests[1].items[k])
       /\ ~manifests[1].items[k].Zip

PlainTarGz(a) == a.archiveType = TarGzType /\ ~a.archiveMacOS

(* C19: a gzip-tar archive that is not of the special platform returns no *)
(* request from the entry-signing prepare step and has none in a phase-1  *)
(* manifest, is never repacked, has its source path as latest path in     *)
(* every state, keeps its source file unchanged, and the archive file     *)
(* published for it has the bytes of the source file.                     *)
C19_PlainTarGzPassesThrough ==
  \A x \in 1..Len(archives) :
    LET a == archives[x] IN
    PlainTarGz(a) =>
      /\ PrepareReturned(x) => RequestsOf(x) = <<>>
      /\ \A i \in 1..Len(manifests) :
           manifests[i].step = 1 =>
             \A k \in 1..Len(manifests[i].items) :
               ~IsUnder(manifests[i].items[k].Include, a.workDir)
      /\ a.repackedPath = NoPath
      /\ (a.workDir \o <<a.name \o WithSignedContentSuffix>>) \notin DOMAIN fs
      /\ latestPath(a) = a.path
      /\ fs[a.path] = SourceContent(a.path)
      /\ DestinationPath(a) \in DOMAIN fs => fs[DestinationPath(a)] = SourceContent(a.path)

C19_Witness ==
  /\ pc = "done"
  /\ ~dryRun
  /\ \E x \in 1..Len(archives) :
       /\ PlainTarGz(archives[x])
       /\ HasEnded("repackSignedEntries", x)
       /\ fs[DestinationPath(archives[x])] = SourceContent(archives[x].path)

(* The archive a manifest record was requested by, and for a record of a  *)
(* zip archive the place of its entry in the container.                   *)
ArchiveOfItem(item) ==
  CHOOSE x \in 1..Len(archives) : IsUnder(item.Include, archives[x].workDir)

EntryOfItem(item) ==
  LET a == archives[ArchiveOfItem(item)] IN
  CHOOSE k \in 1..Len(Entries(a)) :
    item.Include = a.workDir \o <<ExtractDir>> \o Split(Entries(a)[k].name)

(* The records of a manifest that lie in the scratch directory of archive *)
(* x, in manifest order, and the entries of a zip that prepare extracts,   *)
(* in container order.                                                     *)
ItemsOf(items, x) ==
  SelectSeq(items, LAMBDA it : IsUnder(it.Include, archives[x].workDir))

ExeFiles(a) ==
  SelectSeq(Entries(a), LAMBDA e : HasSuffix(e.name, ExeSuffix) /\ ~ZipIsDir(e))

(* C20: in every manifest each record belongs to one archive, the records *)
(* of an archive discovered earlier come before those of one discovered   *)
(* later, and the records of a zip archive are in the order of their      *)
(* entries in the container.                                              *)
C20_ManifestOrder ==
  \A i \in 1..Len(manifests) :
    LET items == manifests[i].items IN
    /\ \A k \in 1..Len(items) :
         \E x \in 1..Len(archives) : IsUnder(items[k].Include, archives[x].workDir)
    /\ \A k, l \in 1..Len(items) :
         k < l =>
           /\ ArchiveOfItem(items[k]) <= ArchiveOfItem(items[l])
           /\ (ArchiveOfItem(items[k]) = ArchiveOfItem(items[l]) /\ manifests[i].step = 1) =>
                archives[ArchiveOfItem(items[k])].archiveType = ZipType
           /\ manifests[i].step = 3 => ArchiveOfItem(items[k]) < ArchiveOfItem(items[l])
    /\ \A x \in 1..Len(archives) :
         (manifests[i].step = 1 /\ archives[x].archiveType = ZipType) =>
           /\ Len(ItemsOf(items, x)) = Len(ExeFiles(archives[x]))
           /\ \A k \in 1..Len(ExeFiles(archives[x])) :
                ItemsOf(items, x)[k].Include
                  = archives[x].workDir \o <<ExtractDir>>
                      \o Split(ExeFiles(archives[x])[k].name)

C20_Witness ==
  /\ Len(manifests) >= 1
  /\ manifests[1].step = 1
  /\ Len(manifests[1].items) = 3
  /\ ArchiveOfItem(manifests[1].items[1]) = 1
  /\ ArchiveOfItem(manifests[1].items[2]) = 2
  /\ EntryOfItem(manifests[1].items[2]) = 1
  /\ EntryOfItem(manifests[1].items[3]) = 3

SigCopyPath(a) == a.workDir \o <<a.name \o SigSuffix>>

SignaturePrepared(x) ==
  pc \in {"prepareArchiveSignatures", "sign3"} /\ HasEnded("prepareArchiveSignatures", x)

(* A step leaves the file at every archive's latest path as it is. *)
LatestFilesUnchanged ==
  \A x \in 1..Len(archives) :
    /\ latestPath(archives[x]) \in DOMAIN fs'
    /\ fs'[latestPath(archives[x])] = fs[latestPath(archives[x])]

(* C21: the manifest of the signature phase holds one record per archive, *)
(* in order, for the file at the archive's signature path, which is not   *)
(* its latest path, with the detached-signature profile; from the end of  *)
(* an archive's signature prepare step until the signer call returns, the *)
(* file at the signature path is a copy of the file at the latest path;   *)
(* and no step of the signature phase changes the file at an archive's    *)
(* latest path.                                                           *)
C21_SignatureOfCopy ==
  /\ [](\A i \in 1..Len(manifests) :
          manifests[i].step = 3 =>
            /\ Len(manifests[i].items) = Len(archives)
            /\ \A x \in 1..Len(archives) :
                 /\ manifests[i].items[x].Include = SigCopyPath(archives[x])
                 /\ manifests[i].items[x].Include # latestPath(archives[x])
                 /\ manifests[i].items[x].Authenticode = "LinuxSignManagedLanguageCompiler")
  /\ [](\A x \in 1..Len(archives) :
          SignaturePrepared(x) =>
            /\ SigCopyPath(archives[x]) \in DOMAIN fs
            /\ fs[SigCopyPath(archives[x])] = fs[latestPath(archives[x])])
  /\ [][(pc \in {"prepareArchiveSignatures", "sign3"}) => LatestFilesUnchanged]_vars

C21_Witness ==
  /\ ~dryRun
  /\ pc = "copyToDestination"
  /\ Len(archives) = 2
  /\ manifests[Len(manifests)].step = 3
  /\ \A x \in 1..2 :
       /\ fs[SigCopyPath(archives[x])].kind = "signature"
       /\ fs[SigCopyPath(archives[x])].of = fs[latestPath(archives[x])]

PublishedArchive(a) == DestinationDir \o <<a.name>>
PublishedSignature(a) == DestinationDir \o <<a.name \o SigSuffix>>
PublishedChecksum(a) == DestinationDir \o <<a.name \o Sha256Suffix>>

(* C22: when the run has ended without error the destination directory   *)
(* holds, for every archive, a file of the archive's name equal to the    *)
(* file at its latest path, a file name.sig equal to its signature file,  *)
(* and a file name.sha256; and in every state, if the checksum file of    *)
(* any archive exists then every archive and signature is published.      *)
C22_Published ==
  /\ (pc = "done" /\ err = "") =>
       \A x \in 1..Len(archives) :
         LET a == archives[x] IN
         /\ PublishedArchive(a) \in DOMAIN fs
         /\ fs[PublishedArchive(a)] = fs[latestPath(a)]
         /\ PublishedSignature(a) \in DOMAIN fs
         /\ fs[PublishedSignature(a)] = fs[SigCopyPath(a)]
         /\ PublishedChecksum(a) \in DOMAIN fs
         /\ fs[PublishedChecksum(a)].kind = "checksum"
  /\ (\E x \in 1..Len(archives) : PublishedChecksum(archives[x]) \in DOMAIN fs) =>
       \A y \in 1..Len(archives) :
         /\ HasEnded("copyToDestination", y)
         /\ PublishedArchive(archives[y]) \in DOMAIN fs
         /\ PublishedSignature(archives[y]) \in DOMAIN fs

C22_Witness ==
  /\ pc = "done"
  /\ err = ""
  /\ ~dryRun
  /\ Len(archives) = 2
  /\ IsRepacked(archives[1])
  /\ fs[PublishedArchive(archives[1])] = fs[targetPath(archives[1])]
  /\ fs[PublishedSignature(archives[2])].kind = "signature"

NotarizeStepLeavesState ==
  /\ archives' = archives
  /\ fs' = fs
  /\ written' = written
  /\ manifests' = manifests
  /\ results' = <<>>

RelativeRecord(name, rel, authenticode) ==
  [Archive |-> name, Rel |-> rel, Authenticode |-> authenticode, Zip |-> FALSE]

RelativeItem(item) ==
  RelativeRecord(archives[ArchiveOfItem(item)].name,
                 SubSeq(item.Include, Len(TempDir) + 2, Len(item.Include)),
                 item.Authenticode)

(* The records the input calls for, computed from the globbed files only. *)
InputRecords(step, p) ==
  LET name == Base(p[Len(p)])
      kind == ArchiveTypeOf(name)
      entries == SourceContent(p).entries
      ExeFile(e) == HasSuffix(e.name, ExeSuffix) /\ ~ZipIsDir(e)
      exes == SelectSeq(entries, ExeFile)
  IN  IF HasSuffix(name, Sha256Suffix) THEN <<>>
      ELSE IF step = 3 THEN
        <<RelativeRecord(name, <<name \o SigSuffix>>, "LinuxSignManagedLanguageCompiler")>>
      ELSE IF step = 2 THEN <<>>
      ELSE IF kind = ZipType THEN
        [k \in 1..Len(exes) |->
           RelativeRecord(name, <<ExtractDir>> \o Split(exes[k].name), "Microsoft400")]
      ELSE IF Match(DarwinPattern, name) THEN
        <<RelativeRecord(name, <<name \o ToSignBundleSuffix>>, "MacDeveloperHarden")>>
      ELSE <<>>

RECURSIVE InputManifest(_, _)
InputManifest(step, n) ==
  IF n = 0 THEN <<>>
  ELSE InputManifest(step, n - 1) \o InputRecords(step, files[n])

(* The scratch directory newArchive gets in the run in which os.MkdirTemp *)
(* picks its first name every time.                                       *)
FirstRunWorkDir(a) ==
  TempDir \o <<SignWorkPrefix \o a.name \o <<"1">> >>

(* C24 as stated: every manifest of a dry run is the manifest any other   *)
(* dry run on the same input builds, path for path: each record names the *)
(* file it names in the run where os.MkdirTemp picks its first name.      *)
C24_DryRunSamePaths ==
  dryRun =>
    \A i \in 1..Len(manifests) : \A k \in 1..Len(manifests[i].items) :
      LET item == manifests[i].items[k]
          a == archives[ArchiveOfItem(item)]
      IN  item.Include =
            FirstRunWorkDir(a) \o SubSeq(item.Include, Len(TempDir) + 2, Len(item.Include))

(* C24 amended: every manifest of a dry run is determined by the input up *)
(* to the names of the scratch directories: its records, each taken as    *)
(* archive name, path inside the scratch directory, profile and flag, are *)
(* the ones computed from the globbed files, in the same order.           *)
C24_DryRunSameRecords ==
  dryRun =>
    \A i \in 1..Len(manifests) :
      /\ [k \in 1..Len(manifests[i].items) |-> RelativeItem(manifests[i].items[k])] =
           InputManifest(manifests[i].step, Len(files))
      /\ \A k \in 1..Len(manifests[i].items) : ~manifests[i].items[k].Zip

C24_Witness ==
  /\ dryRun
  /\ pc = "done"
  /\ Len(manifests) >= 2
  /\ Len(manifests[1].items) = 2
  /\ \E x \in 1..Len(archives) : archives[x].workDir # FirstRunWorkDir(archives[x])

EndsInSha256(p) == HasSuffix(p[Len(p)], Sha256Suffix)

NotSha256(p) == ~EndsInSha256(p)

NamedLikeArchive(p) ==
  LET name == p[Len(p)] IN
  /\ HasPrefix(name, GoPrefix)
  /\ \/ HasSuffix(name, ZipExt) /\ Len(name) >= Len(GoPrefix) + Len(ZipExt)
     \/ HasSuffix(name, TarGzExt) /\ Len(name) >= Len(GoPrefix) + Len(TarGzExt)

DiscoveryOver == pc \notin {"findArchives", "failed"}

(* C25: the archives found are, in glob order, the globbed paths that do  *)
(* not end in .sha256, all of them once discovery is over; a path ending  *)
(* in .sha256 is never the cause of a classification or duplicate         *)
(* failure; and when some other globbed path is not named go*.zip or      *)
(* go*.tar.gz the run never gets past discovery, builds no request or     *)
(* manifest and starts no signer.                                         *)
C25_Discovery ==
  LET wanted == SelectSeq(files, NotSha256) IN
  /\ Len(archives) <= Len(wanted)
  /\ \A x \in 1..Len(archives) : archives[x].path = wanted[x]
  /\ DiscoveryOver => Len(archives) = Len(wanted)
  /\ err \in {"unknown archive type", "duplicate archive"} =>
       /\ pc = "failed"
       /\ NotSha256(files[idx])
  /\ err = "unknown archive type" => ~NamedLikeArchive(files[idx])
  /\ (\E i \in 1..Len(files) : NotSha256(files[i]) /\ ~NamedLikeArchive(files[i])) =>
       /\ ~DiscoveryOver
       /\ results = <<>>
       /\ manifests = <<>>
       /\ events = <<>>
       /\ proc = "none"

C25_Witness ==
  /\ pc = "failed"
  /\ err = "unknown archive type"
  /\ Len(files) = 2
  /\ EndsInSha256(files[1])
  /\ idx = 2
  /\ archives = <<>>


----------------------------------------------------------------------------
(* The checksum sidecar.                                                    *)

HexDigits == {"0","1","2","3","4","5","6","7","8","9","a","b","c","d","e","f"}

(* The sidecar of archive a holds one line: 64 lower-case hexadecimal      *)
(* digits that encode the digest of the published file, two spaces, the    *)
(* file's name without a directory part, and a newline.                    *)
IsChecksumLine(text, a) ==
  /\ Len(text) = 64 + 2 + Len(a.name) + 1
  /\ \A i \in 1..64 : text[i] \in HexDigits
  /\ SubSeq(text, 1, 64) = EncodeToString(Sha256Sum(fs[PublishedArchive(a)]))
  /\ text[65] = " " /\ text[66] = " "
  /\ SubSeq(text, 67, Len(text) - 1) = a.name
  /\ \A i \in 67..(Len(text) - 1) : text[i] # "/"
  /\ \A i \in 1..Len(text) : (text[i] = "\n") <=> (i = Len(text))

(* The checksum step leaves every file that already exists as it is. *)
ChecksumKeepsFiles ==
  pc = "checksum" => \A p \in DOMAIN fs : p \in DOMAIN fs' /\ fs'[p] = fs[p]

(* C26: the sidecar of a published file P is P's path with ".sha256"      *)
(* appended and holds exactly one line: the 64-character lower-case        *)
(* hexadecimal digest of P's bytes, two spaces, the base name of P and a   *)
(* newline; writing it does not modify P.                                  *)
C26_ChecksumSidecar ==
  /\ [](\A x \in 1..Len(archives) :
         PublishedChecksum(archives[x]) \in DOMAIN fs =>
           /\ PublishedArchive(archives[x]) \in DOMAIN fs
           /\ fs[PublishedChecksum(archives[x])].kind = "checksum"
           /\ IsChecksumLine(fs[PublishedChecksum(archives[x])].text, archives[x]))
  /\ [][ChecksumKeepsFiles]_vars

C26_Witness ==
  \E x \in 1..Len(archives) :
    /\ PublishedChecksum(archives[x]) \in DOMAIN fs
    /\ Len(fs[PublishedChecksum(archives[x])].text) > 64


----------------------------------------------------------------------------
(* The construction helpers.                                                *)

(* An output is open: a construction helper has created the file and its  *)
(* visitor has not returned.                                               *)
OutputOpen ==
  /\ pc \in {"prepareEntriesToSign", "repackSignedEntries"}
  /\ cur.target # NoPath
  /\ cur.target \in DOMAIN fs
  /\ ~fs[cur.target].closed

VisitorRunning == ent >= 1 /\ ent <= Len(Entries(archives[idx]))

(* A step in which the visitor of an open output returns an error leaves  *)
(* the output on disk, closed, with no entry taken away, and the error of  *)
(* the run is not the close error.                                         *)
VisitorErrorClosesOutput ==
  (OutputOpen /\ VisitorRunning /\ pc' = "failed") =>
     /\ cur.target \in DOMAIN fs'
     /\ fs'[cur.target].closed
     /\ Len(fs'[cur.target].entries) >= Len(fs[cur.target].entries)
     /\ SubSeq(fs'[cur.target].entries, 1, Len(fs[cur.target].entries))
          = fs[cur.target].entries
     /\ err' # CloseFailed
     /\ err' # ""

(* C27: the construction helpers close every writer and the output file   *)
(* before they return, also when the visitor returns an error; then the    *)
(* visitor's error is returned, not a close error, and the partly written  *)
(* output stays on disk.  No archive file is left open when the run ends.  *)
C27_HelpersClose ==
  /\ [][VisitorErrorClosesOutput]_vars
  /\ [](pc \in {"failed", "done"} =>
          \A p \in DOMAIN fs : fs[p].kind \in {"zip", "targz"} => fs[p].closed)

C27_Witness ==
  /\ pc = "failed"
  /\ err = "duplicate file name in archive"
  /\ \E x \in 1..Len(archives) :
       /\ macHardenPackPath(archives[x]) \in DOMAIN fs
       /\ fs[macHardenPackPath(archives[x])].closed
       /\ Len(fs[macHardenPackPath(archives[x])].entries) >= 1


----------------------------------------------------------------------------
(* The gzip-tar repack: body bytes and the size field.                      *)

(* The repack of archive x has stopped at entry k with a byte count that   *)
(* does not match the header: the error is raised in the visit of that     *)
(* entry, while it is the last one written.                                *)
MismatchReported(x, k) ==
  /\ pc = "failed"
  /\ err \in {"failed to write", "failed to flush"}
  /\ idx = x
  /\ ent = k
  /\ Len(fs[targetPath(archives[x])].entries) = k

(* The bundle entry that replaces entry e of archive a. *)
ReplacementOf(a, e) ==
  fs[macHardenPackPath(a)].entries[
    ZipIndex(fs[macHardenPackPath(a)].entries, Base(e.name))]

TarRepackOutputs ==
  { x \in 1..Len(archives) :
      archives[x].archiveMacOS /\ targetPath(archives[x]) \in DOMAIN fs }

(* C28: in the gzip-tar repack every output entry holds as many body      *)
(* bytes as the size field of its header says, or the mismatch has been    *)
(* reported in the visit of that very entry, before a next entry is        *)
(* started; a substituted entry's size field is the size of its signed     *)
(* replacement, and an entry that is not a regular file has a header and   *)
(* no body.                                                                *)
C28_TarBodyMatchesSize ==
  \A x \in TarRepackOutputs :
    LET a == archives[x]
        out == fs[targetPath(a)].entries
    IN  /\ Len(out) <= Len(Entries(a))
        /\ \A k \in 1..Len(out) :
             LET e == Entries(a)[k] IN
             /\ out[k].name = e.name
             /\ Len(out[k].data) = out[k].size \/ MismatchReported(x, k)
             /\ Replaced(a, e) => out[k].size = Len(ReplacementOf(a, e).data)
             /\ e.typeflag # "reg" => out[k].data = <<>>
        /\ (pc = "failed" /\ idx = x /\ err \in {"failed to write", "failed to flush"})
             => (ent >= 1 /\ Len(out) = ent /\ Len(out[ent].data) # out[ent].size)

(* A finished repack in which a substituted entry has got a size other    *)
(* than the original's and a symbolic link has got a header and no body.   *)
C28_Witness ==
  \E x \in TarRepackOutputs :
    LET a == archives[x]
        out == fs[targetPath(a)].entries
    IN  /\ IsRepacked(a)
        /\ \E k \in 1..Len(out) :
             /\ Replaced(a, Entries(a)[k])
             /\ out[k].size # Entries(a)[k].size
             /\ Len(out[k].data) = out[k].size
        /\ \E k \in 1..Len(out) :
             Entries(a)[k].typeflag = "symlink" /\ out[k].data = <<>>

(* A repack stopped by a header-only entry whose header carries a size. *)
C28_MismatchReached ==
  \E x \in TarRepackOutputs : \E k \in 1..Len(Entries(archives[x])) :
    /\ MismatchReported(x, k)
    /\ Len(fs[targetPath(archives[x])].entries[k].data)
         # fs[targetPath(archives[x])].entries[k].size


----------------------------------------------------------------------------
(* The repacked path.                                                       *)

(* The file at p is a finished rewrite of archive a: closed, with one      *)
(* entry for each entry of the source, under the same names in order.      *)
CompleteRepack(a, p) ==
  /\ p \in DOMAIN fs
  /\ fs[p].kind = fs[a.path].kind
  /\ fs[p].closed
  /\ Len(fs[p].entries) = Len(Entries(a))
  /\ \A k \in 1..Len(Entries(a)) : fs[p].entries[k].name = Entries(a)[k].name

(* A step that sets a repacked path is the return of the archive's repack *)
(* after its last entry, with no error.                                    *)
RepackedPathSetOnReturn ==
  \A x \in 1..Len(archives) :
    (x <= Len(archives') /\ archives'[x].repackedPath # archives[x].repackedPath) =>
       /\ pc = "repackSignedEntries"
       /\ idx = x
       /\ ent > Len(Entries(archives[x]))
       /\ err' = ""
       /\ pc' # "failed"
       /\ archives'[x].repackedPath = targetPath(archives[x])

(* C29: an archive's repacked path is set only when its repack has        *)
(* returned without error, every entry written and the output closed; the  *)
(* latest path of an archive always names the source file or a completely  *)
(* written repacked file, never a partial output.                          *)
C29_RepackedPathComplete ==
  /\ [](\A x \in 1..Len(archives) :
          LET a == archives[x] IN
          /\ a.repackedPath # NoPath =>
               /\ a.repackedPath = targetPath(a)
               /\ CompleteRepack(a, a.repackedPath)
               /\ HasEnded("repackSignedEntries", x)
          /\ latestPath(a) = a.path \/ CompleteRepack(a, latestPath(a)))
  /\ [][RepackedPathSetOnReturn]_vars

(* One archive's repack has finished and set the path while the next      *)
(* archive's output is still partial and its path unset.                   *)
C29_Witness ==
  /\ Len(archives) = 2
  /\ archives[1].repackedPath # NoPath
  /\ latestPath(archives[1]) = targetPath(archives[1])
  /\ targetPath(archives[2]) \in DOMAIN fs
  /\ ~CompleteRepack(archives[2], targetPath(archives[2]))
  /\ latestPath(archives[2]) = archives[2].path


----------------------------------------------------------------------------
(* What is signed is what is published.                                     *)

(* Archive x is between the end of its signature prepare step and the end *)
(* of its publish step.                                                    *)
AwaitingPublish(x) ==
  HasEnded("prepareArchiveSignatures", x) /\ ~HasEnded("copyToDestination", x)

(* A step keeps, for every archive that awaits publishing, the latest     *)
(* path and the file at it.                                                *)
SignedFilesKept ==
  \A x \in 1..Len(archives) :
    AwaitingPublish(x) =>
      /\ x <= Len(archives')
      /\ latestPath(archives'[x]) = latestPath(archives[x])
      /\ latestPath(archives[x]) \in DOMAIN fs'
      /\ fs'[latestPath(archives[x])] = fs[latestPath(archives[x])]

(* C30: for every archive the bytes submitted for the detached signature  *)
(* are the bytes published: its latest path and the file at that path do   *)
(* not change from the end of its signature prepare step to the end of its *)
(* publish step, so the published signature is the signature of the        *)
(* published archive file.                                                 *)
C30_SignedIsPublished ==
  /\ [][SignedFilesKept]_vars
  /\ [](\A x \in 1..Len(archives) :
          HasEnded("copyToDestination", x) =>
            /\ fs[PublishedArchive(archives[x])] = fs[latestPath(archives[x])]
            /\ ~dryRun =>
                 /\ fs[PublishedSignature(archives[x])].kind = "signature"
                 /\ fs[PublishedSignature(archives[x])].of = fs[PublishedArchive(archives[x])])

(* A repacked archive and its signature have been published by a run that *)
(* called the signer.                                                      *)
C30_Witness ==
  /\ ~dryRun
  /\ \E x \in 1..Len(archives) :
       /\ HasEnded("copyToDestination", x)
       /\ IsRepacked(archives[x])
       /\ fs[PublishedSignature(archives[x])].of = fs[archives[x].repackedPath]
       /\ fs[PublishedArchive(archives[x])] # fs[archives[x].path]


----------------------------------------------------------------------------
(* Prepare and repack agree on the entries.                                 *)

(* C31: for every archive whose prepare step has ended, the entries whose *)
(* content repack replaces are the entries prepare extracted (zip) or      *)
(* bundled (macOS gzip-tar), and the file or bundle entry that holds the   *)
(* replacement of each exists.                                             *)
C31_ReplacedWerePrepared ==
  \A x \in 1..Len(archives) :
    HasEnded("prepareEntriesToSign", x) =>
      \A k \in 1..Len(Entries(archives[x])) :
        LET a == archives[x]
            e == Entries(a)[k]
        IN  /\ Replaced(a, e) <=> SelectedEntry(a, e)
            /\ Replaced(a, e) => SignedBytesPresent(a, e)

(* The repack of a zip has failed on a replaced entry that prepare did    *)
(* not extract.                                                            *)
C31_RepackMissesFile ==
  /\ pc = "failed"
  /\ err = "file does not exist"
  /\ idx \in 1..Len(archives)
  /\ ent \in 1..Len(Entries(archives[idx]))
  /\ Replaced(archives[idx], Entries(archives[idx])[ent])
  /\ ~SelectedEntry(archives[idx], Entries(archives[idx])[ent])


----------------------------------------------------------------------------
(* The paths of a manifest.                                                 *)

(* C32: within a manifest no two records name the same file path; records *)
(* of different archives lie in different scratch directories.             *)
C32_DistinctRequestPaths ==
  /\ \A i \in 1..Len(manifests) :
       \A k, l \in 1..Len(manifests[i].items) :
         k # l => manifests[i].items[k].Include # manifests[i].items[l].Include
  /\ \A x, y \in 1..Len(archives) : x # y => archives[x].workDir # archives[y].workDir

(* A manifest of the first phase with two records for one extracted file. *)
C32_SamePathTwice ==
  \E i \in 1..Len(manifests) :
    /\ manifests[i].step = 1
    /\ \E k, l \in 1..Len(manifests[i].items) :
         k < l /\ manifests[i].items[k].Include = manifests[i].items[l].Include

(* Records of different archives never share a path, and the records of   *)
(* the notarize and signature phases are pairwise distinct.                *)
C32_DistinctAcrossArchives ==
  /\ \A x, y \in 1..Len(archives) : x # y => archives[x].workDir # archives[y].workDir
  /\ \A i \in 1..Len(manifests) :
       \A k, l \in 1..Len(manifests[i].items) :
         (k # l /\ manifests[i].items[k].Include = manifests[i].items[l].Include) =>
            /\ manifests[i].step = 1
            /\ ArchiveOfItem(manifests[i].items[k]) = ArchiveOfItem(manifests[i].items[l])
            /\ archives[ArchiveOfItem(manifests[i].items[k])].archiveType = ZipType


----------------------------------------------------------------------------
(* Entry types in the gzip-tar repack.                                      *)

(* C33: in the macOS gzip-tar repack every output entry has the entry     *)
(* type of the original entry it is copied from.                           *)
C33_EntryTypePreserved ==
  \A x \in TarRepackOutputs :
    LET out == fs[targetPath(archives[x])].entries IN
    \A k \in 1..Len(out) :
      k <= Len(Entries(archives[x])) =>
        out[k].typeflag = Entries(archives[x])[k].typeflag

(* A finished repack whose output records a symbolic link of the original *)
(* as a regular file that still carries the link target.                   *)
C33_LinkBecomesFile ==
  \E x \in TarRepackOutputs :
    /\ IsRepacked(archives[x])
    /\ \E k \in 1..Len(Entries(archives[x])) :
         /\ Entries(archives[x])[k].typeflag = "symlink"
         /\ fs[archives[x].repackedPath].entries[k].typeflag = "reg"
         /\ fs[archives[x].repackedPath].entries[k].linkname
              = Entries(archives[x])[k].linkname

(* Regular files and directories named with a trailing slash keep their   *)
(* type.                                                                   *)
C33_FilesAndDirsKeepType ==
  \A x \in TarRepackOutputs :
    LET out == fs[targetPath(archives[x])].entries IN
    \A k \in 1..Len(out) :
      (k <= Len(Entries(archives[x]))
         /\ \/ Entries(archives[x])[k].typeflag = "reg"
            \/ (Entries(archives[x])[k].typeflag = "dir"
                  /\ HasSuffix(Entries(archives[x])[k].name, <<"/">>))) =>
        out[k].typeflag = Entries(archives[x])[k].typeflag


----------------------------------------------------------------------------
(* The source archives are never written.                                   *)

InDestination(p) == IsUnder(p, DestinationDir)

(* The manifest file of a phase, written to the temporary directory. *)
IsPropsFile(p) == \E n \in 1..3 : p = propsFilePath(n)

(* The source archives hold the bytes they held at the start, and no step *)
(* has written to the path of one.                                         *)
SourcesKept ==
  \A i \in 1..Len(files) :
    /\ files[i] \in DOMAIN fs
    /\ fs[files[i]] = SourceContent(files[i])
    /\ \A w \in written : w.path # files[i]

(* C34 as stated: every file a step creates and every file a request      *)
(* names lies in an archive's scratch directory or in the destination      *)
(* directory, and every source archive keeps its bytes.                    *)
C34_OnlyScratchOrDestination ==
  /\ \A w \in written : InScratch(w.path) \/ InDestination(w.path)
  /\ \A i \in 1..Len(manifests) : \A k \in 1..Len(manifests[i].items) :
       InScratch(manifests[i].items[k].Include)
  /\ SourcesKept

(* C34 amended: the same, with the manifest file of a phase, which sign    *)
(* writes directly into the temporary directory, as the one further file.  *)
C34_SourcesNeverWritten ==
  /\ \A w \in written :
       InScratch(w.path) \/ InDestination(w.path) \/ IsPropsFile(w.path)
  /\ \A p \in DOMAIN fs :
       \/ InScratch(p) \/ InDestination(p) \/ IsPropsFile(p)
       \/ \E i \in 1..Len(files) : files[i] = p
  /\ \A i \in 1..Len(manifests) : \A k \in 1..Len(manifests[i].items) :
       InScratch(manifests[i].items[k].Include)
  /\ SourcesKept

(* A finished run that called the signer: it has written manifest files,  *)
(* scratch files and published files, a pass-through archive among them.   *)
C34_Witness ==
  /\ pc = "done"
  /\ ~dryRun
  /\ Len(archives) = 2
  /\ \E w \in written : IsPropsFile(w.path)
  /\ \E w \in written : InScratch(w.path)
  /\ \E w \in written : InDestination(w.path)
  /\ \E x \in 1..Len(archives) : latestPath(archives[x]) = archives[x].path
  /\ \E x \in 1..Len(archives) : IsRepacked(archives[x])


----------------------------------------------------------------------------
(* Discovery that finds nothing.                                            *)

(* The glob matched nothing, or only checksum files. *)
NoArchiveGlobbed == \A i \in 1..Len(files) : EndsInSha256(files[i])

(* C35: when discovery finds no archive the run fails with an error       *)
(* before any request is built: it never leaves discovery except by        *)
(* failing, no request, manifest or signer call exists, and no file has    *)
(* been written or published.                                              *)
C35_NothingFound ==
  NoArchiveGlobbed =>
    /\ pc \in {"findArchives", "failed"}
    /\ pc = "failed" => err # ""
    /\ (pc = "failed" /\ idx > Len(files) /\ err # "input/output error")
         => err = "no archives found to sign"
    /\ archives = <<>>
    /\ results = <<>>
    /\ manifests = <<>>
    /\ proc # "running"
    /\ \A i \in 1..Len(events) : events[i].ev # "exec"
    /\ written = {}
    /\ \A p \in DOMAIN fs : \E i \in 1..Len(files) : files[i] = p

(* Discovery over a directory that holds only a checksum file has failed. *)
C35_Witness ==
  /\ Len(files) = 1
  /\ NoArchiveGlobbed
  /\ pc = "failed"
  /\ err = "no archives found to sign"

(* Discovery over an empty glob result has failed. *)
C35_EmptyGlobFails ==
  files = <<>> /\ pc = "failed" /\ err = "no archives found to sign"


----------------------------------------------------------------------------
(* Invoke-WithRetry, the retry helper of the bootstrap script.              *)

(* The largest and smallest $MaxAttempts a call is made with. *)
MaxRetries == 5
MinRetries == 0 - 1

(* The pauses a call is made with; Start-Sleep rejects a negative one. *)
Pauses == {0 - 1, 0, 1}

(* A call of the helper is about to enter its loop; the signing pipeline  *)
(* is not part of this program and stays as it is.                         *)
RetryInit ==
  /\ files = <<>>
  /\ dryRun = FALSE
  /\ notarize = FALSE
  /\ timeoutSet = FALSE
  /\ ctxDone = FALSE
  /\ pc = "findArchives"
  /\ idx = 1
  /\ ent = 0
  /\ archives = <<>>
  /\ archiveFilenames = <<>>
  /\ results = <<>>
  /\ cur = NoLocals
  /\ fs = <<>>
  /\ proc = "none"
  /\ manifests = <<>>
  /\ events = <<>>
  /\ written = {}
  /\ err = ""
  /\ MaxAttempts \in MinRetries..MaxRetries
  /\ SecondsBetweenAttempts \in Pauses
  /\ Attempts = 0
  /\ rpc = "try"
  /\ runs = 0
  /\ sleeps = 0
  /\ lastFailure = 0
  /\ outcome = NoOutcome

(* try { return & $ScriptBlock }: the block runs and returns a value; the *)
(* value of the n-th invocation is written n.                              *)
BlockReturns ==
  /\ rpc = "try"
  /\ runs' = runs + 1
  /\ outcome' = [kind |-> "returned", value |-> runs + 1]
  /\ rpc' = "returned"
  /\ UNCHANGED <<MaxAttempts, SecondsBetweenAttempts, Attempts, sleeps, lastFailure>>
  /\ UNCHANGED <<config, ctxDone, control, archives, archiveFilenames, results, cur, fs,
                 proc, history>>

(* The block throws; the error of the n-th invocation is written n. *)
BlockThrows ==
  /\ rpc = "try"
  /\ runs' = runs + 1
  /\ lastFailure' = runs + 1
  /\ rpc' = "catch"
  /\ UNCHANGED <<MaxAttempts, SecondsBetweenAttempts, Attempts, sleeps, outcome>>
  /\ UNCHANGED <<config, ctxDone, control, archives, archiveFilenames, results, cur, fs,
                 proc, history>>

(* A test that allows one attempt more. *)
RetryAgainInclusive(attempts, max) == attempts <= max

(* if ($Attempts -lt $MaxAttempts) *)
RetryAgain(attempts, max) == attempts < max

(* catch { $Attempts++; if (...) { Start-Sleep } else { throw } } *)
Catch ==
  /\ rpc = "catch"
  /\ Attempts' = Attempts + 1
  /\ IF RetryAgain(Attempts + 1, MaxAttempts)
     THEN rpc' = "sleep" /\ UNCHANGED outcome
     ELSE rpc' = "thrown" /\ outcome' = [kind |-> "thrown", value |-> lastFailure]
  /\ UNCHANGED <<MaxAttempts, SecondsBetweenAttempts, runs, sleeps, lastFailure>>
  /\ UNCHANGED <<config, ctxDone, control, archives, archiveFilenames, results, cur, fs,
                 proc, history>>

(* Start-Sleep $SecondsBetweenAttempts: waits and the loop goes round, or *)
(* rejects a negative argument with an error that leaves the function.     *)
StartSleep ==
  /\ rpc = "sleep"
  /\ IF SecondsBetweenAttempts < 0
     THEN /\ rpc' = "thrown"
          /\ outcome' = [kind |-> "sleep rejected", value |-> 0]
          /\ UNCHANGED sleeps
     ELSE /\ rpc' = "try"
          /\ sleeps' = sleeps + 1
          /\ UNCHANGED outcome
  /\ UNCHANGED <<MaxAttempts, SecondsBetweenAttempts, Attempts, runs, lastFailure>>
  /\ UNCHANGED <<config, ctxDone, control, archives, archiveFilenames, results, cur, fs,
                 proc, history>>

RetryNext ==
  \/ BlockReturns
  \/ BlockThrows
  \/ Catch
  \/ StartSleep

(* Every statement of the function is executed in the end: the script     *)
(* block and Start-Sleep return or throw.                                  *)
RetrySpec == RetryInit /\ [][RetryNext]_vars /\ WF_vars(RetryNext)

RetryEnded == rpc \in {"returned", "thrown"}

AtLeastOne(n) == IF n > 1 THEN n ELSE 1

(* What holds of a call at every point. *)
RetryBounds ==
  /\ runs <= AtLeastOne(MaxAttempts)
  /\ sleeps <= runs
  /\ Attempts <= runs
  /\ RetryEnded => runs >= 1 /\ sleeps < runs
  /\ rpc = "returned" =>
       /\ outcome = [kind |-> "returned", value |-> runs]
       /\ Attempts = runs - 1
       /\ sleeps = runs - 1
  /\ (Attempts >= 1 /\ Attempts >= MaxAttempts) =>
       /\ rpc = "thrown"
       /\ outcome = [kind |-> "thrown", value |-> runs]
       /\ lastFailure = runs
       /\ Attempts = AtLeastOne(MaxAttempts)
  /\ (rpc = "thrown" /\ outcome.kind = "thrown") => Attempts >= MaxAttempts
  /\ rpc = "sleep" => runs < MaxAttempts

(* C36: Invoke-WithRetry always terminates; it runs the script block at    *)
(* least once and at most max(1, MaxAttempts) times, returns the result of *)
(* the first invocation that succeeds and runs nothing after it, waits     *)
(* only when another attempt follows, and rethrows the last failure once   *)
(* the number of failed attempts reaches MaxAttempts.                      *)
C36_RetryTerminates ==
  /\ []RetryBounds
  /\ [][RetryEnded => UNCHANGED <<runs, sleeps, outcome>>]_vars
  /\ <>RetryEnded

(* A call that succeeded at its third attempt after two waits. *)
C36_Witness ==
  /\ rpc = "returned"
  /\ runs = 3
  /\ sleeps = 2
  /\ outcome.value = 3

(* A call that gave up after MaxAttempts failures. *)
C36_GaveUp ==
  /\ rpc = "thrown"
  /\ MaxAttempts = 3
  /\ runs = 3
  /\ outcome.value = 3

====
